---- MODULE Spec2Model ----
(***************************************************************************)
(* LaunchKit authentication layer: the client-side flow controllers        *)
(* (password reset, email verification), the form components that drive    *)
(* them and the hooks they call.  One browser tab shows one page; each     *)
(* hook instance owns its own isLoading / error / success cells.  An       *)
(* asynchronous hook action is split at its awaits: a "start" step runs    *)
(* the handler up to the network call, a "settle" step runs the            *)
(* continuation when the backend answers (result, backend error or thrown  *)
(* exception).  The server-side guards (lib/auth-guards.ts) run inside a   *)
(* server request and are split at their awaits of getSession() in the     *)
(* same way.                                                               *)
(***************************************************************************)
EXTENDS Integers, Sequences, FiniteSets, TLC

VARIABLES
    page,        \* the mounted route: "forgot-password" | "verify-email"
    emailParam,  \* searchParams.get("email"); <<>> when absent or empty
    step,        \* ForgotPasswordContent: "request" | "verify" | "reset"
    email,       \* ForgotPasswordContent: email state
    otpValue,    \* otpValue state of the mounted page
    formData,    \* form inputs: [email, password, confirmPassword]
    fieldErrors, \* field-scoped validation messages: [email, password, confirmPassword]
    hook,        \* hook instance -> [isLoading, error, success]
    pending,     \* hook instance -> the invocation in flight (NoCall when none)
    requests,    \* network requests issued so far, in order, each with its answer
    pushed,      \* router.push targets, in order
    visited,     \* history of the values step has taken, in order
    cells,       \* hook name -> the useState cells of that hook's instance
    calls,       \* invocations of hook actions so far, in order of their start
    net,         \* network requests those invocations issued, in order
    effects,     \* callbacks run and navigations made by those invocations, in order
    database,    \* server: what auth.api.getSession resolves to for the request's cookies
    clock,       \* server: the time new Date() reads
    guard        \* server: the auth-guards call in progress, or the last one finished

vars == <<page, emailParam, step, email, otpValue, formData, fieldErrors,
          hook, pending, requests, pushed, visited,
          cells, calls, net, effects, database, clock, guard>>

\* the server-side variables
guardVars == <<database, clock, guard>>

----------------------------------------------------------------------------
(* Bounds of the model *)

\* at most this many network requests are issued in one run
MaxRequests == 4

(* Program constants *)

OTP_LENGTH == 6
PASSWORD_MIN_LENGTH == 8

----------------------------------------------------------------------------
(* Input alphabets.  Strings the code inspects are sequences of characters. *)

NULL == "null"

\* user.banExpires is null: the ban, if any, is permanent.  Ban expiry times
\* are positive
NoExpiry == 0

\* getSession resolved to null, or to a session without a user: session?.user
\* is falsy
NoSession ==
    [user |-> FALSE, role |-> NULL, banned |-> FALSE, banExpires |-> NoExpiry,
     banReason |-> ""]

\* no auth-guards call has been made
NoGuard ==
    [fn |-> "none", role |-> "", roles |-> <<>>, pc |-> "done",
     session |-> NoSession, checked |-> NoSession, now |-> 0,
     result |-> [kind |-> "none", session |-> NoSession, value |-> NULL,
                 error |-> <<>>]]

\* the server side at rest: nobody signed in, no guard called
GuardsIdle == database = NoSession /\ clock = 0 /\ guard = NoGuard

UpperCase == {"A", "B", "C", "X"}
LowerCase == {"a", "b", "c", "d", "e", "f", "g", "h", "i", "o"}
Digit == {"0", "1", "2", "3", "4", "5", "6", "7", "8", "9"}
AlphaNum == UpperCase \cup LowerCase \cup Digit

\* what the user may type into an email input
Emails ==
    { <<>>,
      <<"a", "@", "b">>,
      <<"a", "@", "b", ".", "c", "o">>,
      <<"c", "@", "d", ".", "i", "o">> }

\* what the ?email= query parameter may hold
EmailParams == { <<>>, <<"c", "@", "d", ".", "i", "o">> }

\* what the user may type into the OTP input (InputOTP maxLength = OTP_LENGTH)
OtpValues ==
    { <<>>,
      <<"1", "2", "3", "4", "5">>,
      <<"1", "2", "3", "4", "5", "6">>,
      <<"6", "5", "4", "3", "2", "1">> }

\* what the user may type into a password input
Passwords ==
    { <<>>,
      <<"a", "b", "c", "d", "e", "f", "g", "h">>,
      <<"A", "b", "c", "d", "e", "f", "1", "!">> }

\* what the backend may answer to a request: a result, a backend-reported
\* error (with or without a message) or a thrown exception (an Error with a
\* message, or a value that is no Error)
Outcomes ==
    { [kind |-> "ok", message |-> "", isError |-> FALSE],
      [kind |-> "error", message |-> "", isError |-> FALSE],
      [kind |-> "error", message |-> "Too many requests", isError |-> FALSE],
      [kind |-> "throw", message |-> "Failed to fetch", isError |-> TRUE],
      [kind |-> "throw", message |-> "", isError |-> FALSE] }

\* the hook instances: ForgotPasswordForm's, ForgotPasswordContent's and
\* ResetPasswordForm's useForgotPassword, VerifyEmailPage's useOTPVerification
Instances == {"form", "content", "reset", "verifyEmail"}

NoCall == [op |-> "none", req |-> 0]

----------------------------------------------------------------------------
(* Validation schemas (validations/auth.ts) *)

\* the labels of a domain, split at "."
RECURSIVE Labels(_)
Labels(s) ==
    IF \A i \in 1..Len(s) : s[i] # "."
    THEN <<s>>
    ELSE LET k == CHOOSE i \in 1..Len(s) :
                      s[i] = "." /\ \A j \in 1..(i - 1) : s[j] # "."
         IN <<SubSeq(s, 1, k - 1)>> \o Labels(SubSeq(s, k + 1, Len(s)))

\* z.string().email(): local@domain, the local part non-empty, not starting
\* with a dot and without two dots in a row; the domain at least two labels,
\* each non-empty and alphanumeric (hyphens inside), the last one letters only
\* and at least two long
IsEmail(s) ==
    \E at \in 1..Len(s) :
        /\ s[at] = "@"
        /\ LET local == SubSeq(s, 1, at - 1)
               labels == Labels(SubSeq(s, at + 1, Len(s)))
               n == Len(labels)
           IN /\ Len(local) >= 1
              /\ local[1] # "."
              /\ \A i \in 1..(Len(local) - 1) : ~(local[i] = "." /\ local[i + 1] = ".")
              /\ \A i \in 1..Len(local) : local[i] \in AlphaNum \cup {".", "_", "'", "+", "-"}
              /\ local[Len(local)] \in AlphaNum \cup {"_", "+", "-"}
              /\ n >= 2
              /\ \A l \in 1..(n - 1) :
                    /\ Len(labels[l]) >= 1
                    /\ labels[l][1] \in AlphaNum
                    /\ \A i \in 1..Len(labels[l]) : labels[l][i] \in AlphaNum \cup {"-"}
              /\ Len(labels[n]) >= 2
              /\ \A i \in 1..Len(labels[n]) : labels[n][i] \in UpperCase \cup LowerCase

\* forgotPasswordSchema: the messages of the email field, in check order
forgotPasswordSchema(data) ==
    (IF Len(data.email) < 1 THEN <<"Email is required">> ELSE <<>>)
    \o (IF ~IsEmail(data.email) THEN <<"Please enter a valid email address">> ELSE <<>>)

\* passwordIssues with the length rule alone
passwordIssues_lengthOnly(p) ==
    IF Len(p) < PASSWORD_MIN_LENGTH
    THEN <<"Password must be at least 8 characters">> ELSE <<>>

\* registerSchema and resetPasswordSchema, password field: the messages in
\* check order
passwordIssues(p) ==
    (IF Len(p) < PASSWORD_MIN_LENGTH
        THEN <<"Password must be at least 8 characters">> ELSE <<>>)
    \o (IF ~\E i \in 1..Len(p) : p[i] \in UpperCase
        THEN <<"Password must contain at least one uppercase letter">> ELSE <<>>)
    \o (IF ~\E i \in 1..Len(p) : p[i] \in LowerCase
        THEN <<"Password must contain at least one lowercase letter">> ELSE <<>>)
    \o (IF ~\E i \in 1..Len(p) : p[i] \in Digit
        THEN <<"Password must contain at least one number">> ELSE <<>>)
    \o (IF ~\E i \in 1..Len(p) : p[i] \notin AlphaNum
        THEN <<"Password must contain at least one special character">> ELSE <<>>)

\* confirmPasswordIssues without the object-level refinement
confirmPasswordIssues_noRefine(p, c) ==
    IF Len(c) < 1 THEN <<"Please confirm your password">> ELSE <<>>

\* resetPasswordSchema, confirmPassword field: its own check, then the
\* object-level refinement whose path is confirmPassword
confirmPasswordIssues(p, c) ==
    (IF Len(c) < 1 THEN <<"Please confirm your password">> ELSE <<>>)
    \o (IF p # c THEN <<"Passwords do not match">> ELSE <<>>)

\* resetPasswordSchema.safeParse(data).success
resetPasswordSchema(data) ==
    /\ passwordIssues(data.password) = <<>>
    /\ confirmPasswordIssues(data.password, data.confirmPassword) = <<>>

\* errors.field?.[0] || ""
FirstOr(issues) == IF issues = <<>> THEN "" ELSE issues[1]

----------------------------------------------------------------------------
(* Hooks (hooks/auth): the state updates of each action, split at its awaits *)

\* useState initial values of a hook instance
useHookInit == [isLoading |-> FALSE, error |-> NULL, success |-> FALSE]

\* message || fallback
OrElse(message, fallback) == IF message = "" THEN fallback ELSE message

\* err instanceof Error ? err.message : "An error occurred"
Caught(o) == IF o.isError THEN o.message ELSE "An error occurred"

\* setIsLoading(true); setError(null); setSuccess(false)
actionStart(h) == [h EXCEPT !.isLoading = TRUE, !.error = NULL, !.success = FALSE]

\* the continuation of a one-request action (sendResetOTP, sendOTP,
\* verifyEmail) after its await, finally block included
actionSettle(h, o, fallback) ==
    IF o.kind = "error"
    THEN [h EXCEPT !.error = OrElse(o.message, fallback), !.isLoading = FALSE]
    ELSE IF o.kind = "throw"
    THEN [h EXCEPT !.error = Caught(o), !.isLoading = FALSE]
    ELSE [h EXCEPT !.success = TRUE, !.isLoading = FALSE]

\* useForgotPassword.sendResetOTP after authClient.forgetPassword.emailOtp
sendResetOTPSettle(h, o) == actionSettle(h, o, "Failed to send reset OTP")

\* useOTPVerification.sendOTP after authClient.emailOtp.sendVerificationOtp
sendOTPSettle(h, o) == actionSettle(h, o, "Failed to send OTP")

\* useOTPVerification.verifyEmail after authClient.emailOtp.verifyEmail
verifyEmailSettle(h, o) == actionSettle(h, o, "Failed to verify email")

\* useForgotPassword.resetPassword: whether the action goes on to
\* authClient.revokeOtherSessions() after authClient.emailOtp.resetPassword
resetPasswordContinues(o) == o.kind = "ok"

\* resetPasswordFailed without the early return: the error is set and the
\* action still falls through to setSuccess(true)
resetPasswordFailed_fallsThrough(h, o) ==
    [h EXCEPT !.error = IF o.kind = "error"
                        THEN OrElse(o.message, "Failed to reset password")
                        ELSE Caught(o),
              !.success = TRUE,
              !.isLoading = FALSE]

\* useForgotPassword.resetPassword after authClient.emailOtp.resetPassword,
\* when it ends there (backend error or exception)
resetPasswordFailed(h, o) ==
    IF o.kind = "error"
    THEN [h EXCEPT !.error = OrElse(o.message, "Failed to reset password"),
                   !.isLoading = FALSE]
    ELSE [h EXCEPT !.error = Caught(o), !.isLoading = FALSE]

\* useForgotPassword.resetPassword after authClient.revokeOtherSessions():
\* the result object is not inspected, only an exception is caught
resetPasswordAfterRevoke(h, o) ==
    IF o.kind = "throw"
    THEN [h EXCEPT !.error = Caught(o), !.isLoading = FALSE]
    ELSE [h EXCEPT !.success = TRUE, !.isLoading = FALSE]

\* the authClient operations requested
SEND_RESET_OTP == "forgetPassword.emailOtp"
RESET_PASSWORD == "emailOtp.resetPassword"
REVOKE_OTHERS == "revokeOtherSessions"
VERIFY_EMAIL == "emailOtp.verifyEmail"
SEND_VERIFICATION_OTP == "emailOtp.sendVerificationOtp:email-verification"

\* a request as issued: its answer (result) is filled in when it settles
Request(op, e, otp, pw) ==
    [op |-> op, email |-> e, otp |-> otp, password |-> pw, result |-> "pending"]

\* the answer o to request k arrives
Answer(k, o) == requests' = [requests EXCEPT ![k].result = o.kind]

\* the invocation of action op waiting for the answer to request k
Call(op, k) == [op |-> op, req |-> k]

----------------------------------------------------------------------------
(* Components *)

\* VerifyDisabled without the length test
VerifyDisabled_loadingOnly(isLoading, value) == isLoading

\* OtpForm: <Button disabled={isLoading || value.length !== OTP_LENGTH}>
VerifyDisabled(isLoading, value) == isLoading \/ Len(value) # OTP_LENGTH

\* OtpForm: <button disabled={isLoading} onClick={onResend}>
ResendDisabled(isLoading) == isLoading

\* ForgotPasswordForm: <Button disabled={isLoading || success}>, same for the input
RequestDisabled(h) == h.isLoading \/ h.success

\* ResetPasswordForm: <Button disabled={isLoading}>, same for the inputs
ResetDisabled(h) == h.isLoading

\* InitialStep sending a pre-supplied email straight to the reset step
InitialStep_skipsVerify(param) == IF param # <<>> THEN "reset" ELSE "request"

\* ForgotPasswordContent: useState(emailParam ? "verify" : "request")
InitialStep(param) == IF param # <<>> THEN "verify" ELSE "request"

\* ForgotPasswordContent: useState(emailParam || "")
InitialEmail(param) == param

\* handleOTPSent without setEmail(sentEmail)
handleOTPSent_dropsEmail(sentEmail) ==
    /\ email' = email
    /\ step' = "verify"
    /\ visited' = Append(visited, "verify")

\* handleOTPSent with setStep("reset"): the verify step is passed over
handleOTPSent_skipsVerify(sentEmail) ==
    /\ email' = sentEmail
    /\ step' = "reset"
    /\ visited' = Append(visited, "reset")

\* ForgotPasswordContent.handleOTPSent
handleOTPSent(sentEmail) ==
    /\ email' = sentEmail
    /\ step' = "verify"
    /\ visited' = Append(visited, "verify")

\* handleOTPVerified clearing the OTP input instead of keeping the value
handleOTPVerified_clearsOtp(otp) ==
    /\ otpValue' = <<>>
    /\ step' = "reset"
    /\ visited' = Append(visited, "reset")

\* ForgotPasswordContent.handleOTPVerified
handleOTPVerified(otp) ==
    /\ otpValue' = otp
    /\ step' = "reset"
    /\ visited' = Append(visited, "reset")

\* ForgotPasswordContent.handlePasswordReset
handlePasswordReset == pushed' = Append(pushed, "/login?reset=success")

\* ResetPasswordForm: useEffect(() => { if (success && onPasswordReset)
\* onPasswordReset() }, [success, onPasswordReset]), run after the render in
\* which success went from before to after.  onPasswordReset changes only
\* when ForgotPasswordContent renders again, and in the reset step none of
\* its state does.
ResetSuccessEffect(before, after) ==
    IF before # after /\ after THEN handlePasswordReset ELSE UNCHANGED pushed

\* VerifyEmailPage: useEffect(() => { if (success) router.push("/") },
\* [success, router]), run after the render in which success went from
\* before to after
VerifyEmailSuccessEffect(before, after) ==
    IF before # after /\ after THEN pushed' = Append(pushed, "/") ELSE UNCHANGED pushed

----------------------------------------------------------------------------
(* The state after the page has mounted *)

Init ==
    /\ page \in {"forgot-password", "verify-email"}
    /\ emailParam \in EmailParams
    /\ step = IF page = "forgot-password" THEN InitialStep(emailParam) ELSE "none"
    /\ email = IF page = "forgot-password" THEN InitialEmail(emailParam) ELSE emailParam
    /\ otpValue = <<>>
    /\ formData = [email |-> <<>>, password |-> <<>>, confirmPassword |-> <<>>]
    /\ fieldErrors = [email |-> "", password |-> "", confirmPassword |-> ""]
    /\ hook = [i \in Instances |-> useHookInit]
    /\ pending = [i \in Instances |-> NoCall]
    /\ requests = <<>>
    /\ pushed = <<>>
    /\ visited = <<step>>
    /\ cells = <<>>
    /\ calls = <<>>
    /\ net = <<>>
    /\ effects = <<>>
    /\ GuardsIdle

----------------------------------------------------------------------------
(* Password-reset page: request step (ForgotPasswordForm) *)

\* ForgotPasswordForm.handleInputChange("email", v)
RequestInputChange ==
    /\ page = "forgot-password" /\ step = "request"
    /\ ~RequestDisabled(hook["form"])
    /\ \E v \in Emails :
        /\ formData' = [formData EXCEPT !.email = v]
        /\ fieldErrors' = [fieldErrors EXCEPT !.email = ""]
    /\ UNCHANGED <<cells, calls, net, effects, guardVars>>
    /\ UNCHANGED <<page, emailParam, step, email, otpValue, hook, pending,
                   requests, pushed, visited>>

\* ForgotPasswordForm.handleSubmit up to await sendResetOTP(...): local
\* validation, then the send-OTP request
RequestSubmit ==
    /\ page = "forgot-password" /\ step = "request"
    /\ ~RequestDisabled(hook["form"])
    /\ LET issues == forgotPasswordSchema(formData) IN
        IF issues # <<>>
        THEN /\ fieldErrors' = [fieldErrors EXCEPT !.email = FirstOr(issues)]
             /\ UNCHANGED <<hook, pending, requests>>
        ELSE /\ Len(requests) < MaxRequests
             /\ fieldErrors' = [fieldErrors EXCEPT !.email = ""]
             /\ hook' = [hook EXCEPT !["form"] = actionStart(@)]
             /\ pending' = [pending EXCEPT !["form"] =
                               Call("sendResetOTP", Len(requests) + 1)]
             /\ requests' = Append(requests,
                               Request(SEND_RESET_OTP, formData.email, <<>>, <<>>))
    /\ UNCHANGED <<cells, calls, net, effects, guardVars>>
    /\ UNCHANGED <<page, emailParam, step, email, otpValue, formData, pushed, visited>>

\* the rest of ForgotPasswordForm.handleSubmit: sendResetOTP settles (it
\* never rejects), then onOTPSent(validatedData.email) is called
RequestSettle ==
    /\ pending["form"].op = "sendResetOTP"
    /\ \E o \in Outcomes :
        /\ Answer(pending["form"].req, o)
        /\ hook' = [hook EXCEPT !["form"] = sendResetOTPSettle(@, o)]
    /\ handleOTPSent(requests[pending["form"].req].email)
    /\ pending' = [pending EXCEPT !["form"] = NoCall]
    /\ UNCHANGED <<cells, calls, net, effects, guardVars>>
    /\ UNCHANGED <<page, emailParam, otpValue, formData, fieldErrors, pushed>>

----------------------------------------------------------------------------
(* Password-reset page: verify step (OtpForm under ForgotPasswordContent) *)

\* OtpForm onChange = setOtpValue
OtpChange ==
    /\ page = "forgot-password" /\ step = "verify"
    /\ \E v \in OtpValues : otpValue' = v
    /\ UNCHANGED <<cells, calls, net, effects, guardVars>>
    /\ UNCHANGED <<page, emailParam, step, email, formData, fieldErrors, hook,
                   pending, requests, pushed, visited>>

\* ForgotPasswordContent.handleOTPSubmit
handleOTPSubmit ==
    IF Len(otpValue) = OTP_LENGTH
    THEN handleOTPVerified(otpValue)
    ELSE UNCHANGED <<otpValue, step, visited>>

\* the Verify button of the verify step
OtpSubmit ==
    /\ page = "forgot-password" /\ step = "verify"
    /\ ~VerifyDisabled(hook["content"].isLoading, otpValue)
    /\ handleOTPSubmit
    /\ UNCHANGED <<cells, calls, net, effects, guardVars>>
    /\ UNCHANGED <<page, emailParam, email, formData, fieldErrors, hook, pending,
                   requests, pushed>>

\* handleResendOTP clearing the OTP input when a new code is requested
handleResendOTP_clearsOtp ==
    /\ IF email # <<>>
       THEN /\ hook' = [hook EXCEPT !["content"] = actionStart(@)]
            /\ pending' = [pending EXCEPT !["content"] =
                              Call("sendResetOTP", Len(requests) + 1)]
            /\ requests' = Append(requests,
                              Request(SEND_RESET_OTP, email, <<>>, <<>>))
       ELSE UNCHANGED <<hook, pending, requests>>
    /\ otpValue' = <<>>
    /\ UNCHANGED <<step, email, visited>>

\* ForgotPasswordContent.handleResendOTP up to await sendResetOTP(email): it
\* sets no state of ForgotPasswordContent
handleResendOTP ==
    /\ IF email # <<>>
       THEN /\ hook' = [hook EXCEPT !["content"] = actionStart(@)]
            /\ pending' = [pending EXCEPT !["content"] =
                              Call("sendResetOTP", Len(requests) + 1)]
            /\ requests' = Append(requests,
                              Request(SEND_RESET_OTP, email, <<>>, <<>>))
       ELSE UNCHANGED <<hook, pending, requests>>
    /\ UNCHANGED <<step, email, otpValue, visited>>

\* the Resend button of the verify step
Resend ==
    /\ page = "forgot-password" /\ step = "verify"
    /\ ~ResendDisabled(hook["content"].isLoading)
    /\ Len(requests) < MaxRequests
    /\ handleResendOTP
    /\ UNCHANGED <<cells, calls, net, effects, guardVars>>
    /\ UNCHANGED <<page, emailParam, formData, fieldErrors, pushed>>

\* sendResetOTP of ForgotPasswordContent settles; handleResendOTP ends
ResendSettle ==
    /\ pending["content"].op = "sendResetOTP"
    /\ \E o \in Outcomes :
        /\ Answer(pending["content"].req, o)
        /\ hook' = [hook EXCEPT !["content"] = sendResetOTPSettle(@, o)]
    /\ pending' = [pending EXCEPT !["content"] = NoCall]
    /\ UNCHANGED <<cells, calls, net, effects, guardVars>>
    /\ UNCHANGED <<page, emailParam, step, email, otpValue, formData, fieldErrors,
                   pushed, visited>>

----------------------------------------------------------------------------
(* Password-reset page: reset step (ResetPasswordForm) *)

\* ResetPasswordForm.handleInputChange(field, v)
ResetInputChange ==
    /\ page = "forgot-password" /\ step = "reset"
    /\ ~ResetDisabled(hook["reset"])
    /\ \E f \in {"password", "confirmPassword"}, v \in Passwords :
        /\ formData' = [formData EXCEPT ![f] = v]
        /\ fieldErrors' = [fieldErrors EXCEPT ![f] = ""]
    /\ UNCHANGED <<cells, calls, net, effects, guardVars>>
    /\ UNCHANGED <<page, emailParam, step, email, otpValue, hook, pending,
                   requests, pushed, visited>>

\* ResetPasswordForm.handleSubmit up to await resetPassword(...): local
\* validation, then the reset-password request with the email and otp props
ResetSubmit ==
    /\ page = "forgot-password" /\ step = "reset"
    /\ ~ResetDisabled(hook["reset"])
    /\ IF ~resetPasswordSchema(formData)
       THEN /\ fieldErrors' = [fieldErrors EXCEPT
                   !.password = FirstOr(passwordIssues(formData.password)),
                   !.confirmPassword = FirstOr(confirmPasswordIssues(
                                           formData.password, formData.confirmPassword))]
            /\ UNCHANGED <<hook, pending, requests>>
       ELSE /\ Len(requests) + 2 <= MaxRequests
            /\ fieldErrors' = [fieldErrors EXCEPT !.password = "", !.confirmPassword = ""]
            /\ hook' = [hook EXCEPT !["reset"] = actionStart(@)]
            /\ pending' = [pending EXCEPT !["reset"] =
                              Call("resetPassword", Len(requests) + 1)]
            /\ requests' = Append(requests,
                              Request(RESET_PASSWORD, email, otpValue,
                                      formData.password))
    /\ ResetSuccessEffect(hook["reset"].success, hook'["reset"].success)
    /\ UNCHANGED <<cells, calls, net, effects, guardVars>>
    /\ UNCHANGED <<page, emailParam, step, email, otpValue, formData, visited>>

\* resetPassword after authClient.emailOtp.resetPassword answers: it ends on
\* a backend error or an exception, otherwise it awaits revokeOtherSessions
ResetSettle ==
    /\ pending["reset"].op = "resetPassword"
    /\ \E o \in Outcomes :
        LET answered == [requests EXCEPT ![pending["reset"].req].result = o.kind] IN
        IF resetPasswordContinues(o)
        THEN /\ pending' = [pending EXCEPT !["reset"] =
                               Call("revokeOtherSessions", Len(requests) + 1)]
             /\ requests' = Append(answered,
                               Request(REVOKE_OTHERS, <<>>, <<>>, <<>>))
             /\ UNCHANGED hook
        ELSE /\ pending' = [pending EXCEPT !["reset"] = NoCall]
             /\ hook' = [hook EXCEPT !["reset"] = resetPasswordFailed(@, o)]
             /\ requests' = answered
    /\ ResetSuccessEffect(hook["reset"].success, hook'["reset"].success)
    /\ UNCHANGED <<cells, calls, net, effects, guardVars>>
    /\ UNCHANGED <<page, emailParam, step, email, otpValue, formData, fieldErrors, visited>>

\* resetPassword after authClient.revokeOtherSessions() answers, and the
\* success effect of ResetPasswordForm
RevokeSettle ==
    /\ pending["reset"].op = "revokeOtherSessions"
    /\ \E o \in Outcomes :
        /\ Answer(pending["reset"].req, o)
        /\ hook' = [hook EXCEPT !["reset"] = resetPasswordAfterRevoke(@, o)]
    /\ pending' = [pending EXCEPT !["reset"] = NoCall]
    /\ ResetSuccessEffect(hook["reset"].success, hook'["reset"].success)
    /\ UNCHANGED <<cells, calls, net, effects, guardVars>>
    /\ UNCHANGED <<page, emailParam, step, email, otpValue, formData, fieldErrors,
                   visited>>

----------------------------------------------------------------------------
(* Email-verification page (VerifyEmailPage) *)

\* OtpForm onChange = setOtpValue
VerifyEmailOtpChange ==
    /\ page = "verify-email"
    /\ \E v \in OtpValues : otpValue' = v
    /\ UNCHANGED <<cells, calls, net, effects, guardVars>>
    /\ UNCHANGED <<page, emailParam, step, email, formData, fieldErrors, hook,
                   pending, requests, pushed, visited>>

\* VerifyEmailPage.handleOTPSubmit up to await verifyEmail({email, otp})
VerifyEmailSubmit ==
    /\ page = "verify-email"
    /\ ~VerifyDisabled(hook["verifyEmail"].isLoading, otpValue)
    /\ Len(requests) < MaxRequests
    /\ hook' = [hook EXCEPT !["verifyEmail"] = actionStart(@)]
    /\ pending' = [pending EXCEPT !["verifyEmail"] = Call("verifyEmail", Len(requests) + 1)]
    /\ requests' = Append(requests, Request(VERIFY_EMAIL, email, otpValue, <<>>))
    /\ VerifyEmailSuccessEffect(hook["verifyEmail"].success, hook'["verifyEmail"].success)
    /\ UNCHANGED <<cells, calls, net, effects, guardVars>>
    /\ UNCHANGED <<page, emailParam, step, email, otpValue, formData, fieldErrors, visited>>

\* verifyEmail settles, and the success effect of VerifyEmailPage
VerifyEmailSettle ==
    /\ pending["verifyEmail"].op = "verifyEmail"
    /\ \E o \in Outcomes :
        /\ Answer(pending["verifyEmail"].req, o)
        /\ hook' = [hook EXCEPT !["verifyEmail"] = verifyEmailSettle(@, o)]
    /\ pending' = [pending EXCEPT !["verifyEmail"] = NoCall]
    /\ VerifyEmailSuccessEffect(hook["verifyEmail"].success, hook'["verifyEmail"].success)
    /\ UNCHANGED <<cells, calls, net, effects, guardVars>>
    /\ UNCHANGED <<page, emailParam, step, email, otpValue, formData, fieldErrors,
                   visited>>

\* VerifyEmailPage.handleResendOTP up to await sendOTP(email, "email-verification")
VerifyEmailResend ==
    /\ page = "verify-email"
    /\ ~ResendDisabled(hook["verifyEmail"].isLoading)
    /\ Len(requests) < MaxRequests
    /\ hook' = [hook EXCEPT !["verifyEmail"] = actionStart(@)]
    /\ pending' = [pending EXCEPT !["verifyEmail"] = Call("sendOTP", Len(requests) + 1)]
    /\ requests' = Append(requests,
                      Request(SEND_VERIFICATION_OTP, email, <<>>, <<>>))
    /\ VerifyEmailSuccessEffect(hook["verifyEmail"].success, hook'["verifyEmail"].success)
    /\ UNCHANGED <<cells, calls, net, effects, guardVars>>
    /\ UNCHANGED <<page, emailParam, step, email, otpValue, formData, fieldErrors, visited>>

\* sendOTP settles, and the success effect of VerifyEmailPage
VerifyEmailResendSettle ==
    /\ pending["verifyEmail"].op = "sendOTP"
    /\ \E o \in Outcomes :
        /\ Answer(pending["verifyEmail"].req, o)
        /\ hook' = [hook EXCEPT !["verifyEmail"] = sendOTPSettle(@, o)]
    /\ pending' = [pending EXCEPT !["verifyEmail"] = NoCall]
    /\ VerifyEmailSuccessEffect(hook["verifyEmail"].success, hook'["verifyEmail"].success)
    /\ UNCHANGED <<cells, calls, net, effects, guardVars>>
    /\ UNCHANGED <<page, emailParam, step, email, otpValue, formData, fieldErrors,
                   visited>>

----------------------------------------------------------------------------

Next ==
    \/ RequestInputChange
    \/ RequestSubmit
    \/ RequestSettle
    \/ OtpChange
    \/ OtpSubmit
    \/ Resend
    \/ ResendSettle
    \/ ResetInputChange
    \/ ResetSubmit
    \/ ResetSettle
    \/ RevokeSettle
    \/ VerifyEmailOtpChange
    \/ VerifyEmailSubmit
    \/ VerifyEmailSettle
    \/ VerifyEmailResend
    \/ VerifyEmailResendSettle

Spec == Init /\ [][Next]_vars

----------------------------------------------------------------------------
(* Vocabulary of the properties *)

Failed == {"error", "throw"}

\* request k gets its answer in this step
Answered(k) == requests[k].result = "pending" /\ requests'[k].result # "pending"

\* request k gets a failure (backend error or exception) in this step
AnsweredFailed(k) == requests[k].result = "pending" /\ requests'[k].result \in Failed

\* a request is issued in this step
Issues == Len(requests') = Len(requests) + 1

\* the request issued in this step
Issued == requests'[Len(requests')]

\* the hook instance whose state the form of a step renders
RenderedInstance(st) ==
    CASE st = "request" -> "form"
      [] st = "verify" -> "content"
      [] st = "reset" -> "reset"
      [] OTHER -> "verifyEmail"

\* an error message that the form's {error && <Alert>} shows
Shown(err) == err # NULL /\ err # ""

----------------------------------------------------------------------------
(* C1..C10 *)

\* C1: in the password-reset flow the step changes from request to verify
\* only when the send-OTP call for the submitted email has reported success,
\* and when that call fails the step is still request.
C1_AdvanceOnlyAfterSendSucceeds ==
    [][ /\ (step = "request" /\ step' = "verify") =>
              \E k \in 1..Len(requests) :
                  /\ requests[k].op = SEND_RESET_OTP
                  /\ requests[k].email = email'
                  /\ Answered(k)
                  /\ requests'[k].result = "ok"
        /\ \A k \in 1..Len(requests) :
              (step = "request" /\ requests[k].op = SEND_RESET_OTP /\ AnsweredFailed(k))
                  => step' = "request" ]_vars

\* C2: on the email-verification page router.push happens only when a
\* verify-email operation has just succeeded, and a Resend (an
\* email-verification OTP send), whatever its outcome, pushes nothing.
C2_NavigateOnlyAfterVerifyEmail ==
    [][ /\ (page = "verify-email" /\ pushed' # pushed) =>
              /\ pushed' = Append(pushed, "/")
              /\ \E k \in 1..Len(requests) :
                    /\ requests[k].op = VERIFY_EMAIL
                    /\ Answered(k)
                    /\ requests'[k].result = "ok"
        /\ \A k \in 1..Len(requests) :
              (requests[k].op = SEND_VERIFICATION_OTP /\ Answered(k))
                  => pushed' = pushed
        /\ (page = "verify-email" /\ Issues /\ pending'["verifyEmail"].op = "sendOTP")
              => (Issued.op = SEND_VERIFICATION_OTP /\ pushed' = pushed) ]_vars

\* C3: whenever resetPassword settles with success = true, the
\* revoke-other-sessions request was issued right after the reset-password
\* request succeeded and has itself completed successfully.
C3_SuccessMeansOthersRevoked ==
    [][ (~hook["reset"].success /\ hook'["reset"].success) =>
            \E k \in 2..Len(requests') :
                /\ requests'[k].op = REVOKE_OTHERS
                /\ requests'[k].result = "ok"
                /\ requests'[k - 1].op = RESET_PASSWORD
                /\ requests'[k - 1].result = "ok"
                /\ pending["reset"].req = k ]_vars

\* C4: in the password-reset flow the redirect to /login?reset=success is
\* issued only when the reset-password call of the running resetPassword
\* invocation has succeeded; a failed reset-password call triggers no redirect
\* and leaves the step at reset.
C4_RedirectOnlyAfterResetSucceeds ==
    [][ /\ (page = "forgot-password" /\ pushed' # pushed) =>
              /\ pushed' = Append(pushed, "/login?reset=success")
              /\ pending["reset"].req >= 2
              /\ requests'[pending["reset"].req - 1].op = RESET_PASSWORD
              /\ requests'[pending["reset"].req - 1].result = "ok"
        /\ \A k \in 1..Len(requests) :
              (requests[k].op = RESET_PASSWORD /\ AnsweredFailed(k))
                  => (pushed' = pushed /\ step = "reset" /\ step' = "reset") ]_vars

\* C4 witness: the redirect has been issued after an earlier reset-password
\* call failed.
C4_Witness ==
    /\ page = "forgot-password"
    /\ pushed = <<"/login?reset=success">>
    /\ step = "reset"
    /\ \E k \in 1..Len(requests) :
          requests[k].op = RESET_PASSWORD /\ requests[k].result \in Failed

\* C5 as stated: every password-reset run that reaches the terminal redirect
\* has visited request, verify, reset in exactly that order.
C5_VisitsRequestVerifyReset ==
    (page = "forgot-password" /\ pushed # <<>>)
        => visited = <<"request", "verify", "reset">>

\* C5 amended: every password-reset run that reaches the terminal redirect
\* has visited verify and then reset, never skipping verify; request comes
\* before them exactly when the URL carries no email query parameter (with
\* one the flow starts at verify and request is never visited).
C5_VisitsVerifyThenReset ==
    (page = "forgot-password" /\ pushed # <<>>)
        => visited = IF emailParam # <<>>
                     THEN <<"verify", "reset">>
                     ELSE <<"request", "verify", "reset">>

\* C5 witness: the redirect is reached by a run that started with an email
\* query parameter.
C5_Witness ==
    /\ page = "forgot-password"
    /\ emailParam # <<>>
    /\ pushed # <<>>

\* C6: when the send-OTP call for a valid submitted email e succeeds, the
\* step becomes verify and the controller's email is e; from then on the
\* email never changes, and every resend and reset-password request carries it.
C6_EmailFixedAndCarried ==
    [][ /\ \A k \in 1..Len(requests) :
              (step = "request" /\ requests[k].op = SEND_RESET_OTP
                  /\ Answered(k) /\ requests'[k].result = "ok")
              => /\ step' = "verify"
                 /\ email' = requests[k].email
                 /\ email' = formData.email
                 /\ IsEmail(email')
        /\ step # "request" => email' = email
        /\ (step \in {"verify", "reset"} /\ Issues
              /\ Issued.op \in {SEND_RESET_OTP, RESET_PASSWORD})
              => Issued.email = email' ]_vars

\* C6 witness: after a@b.co was submitted and sent, a resend and a
\* reset-password request have both been issued with it.
C6_Witness ==
    /\ page = "forgot-password"
    /\ emailParam = <<>>
    /\ email = <<"a", "@", "b", ".", "c", "o">>
    /\ Len(requests) >= 3
    /\ requests[1].op = SEND_RESET_OTP /\ requests[1].result = "ok"
    /\ requests[2].op = SEND_RESET_OTP
    /\ requests[3].op = RESET_PASSWORD
    /\ \A k \in 1..3 : requests[k].email = email

\* C7: the verify-to-reset transition happens exactly when the OTP form is
\* submitted with an OTP of length 6; it issues no request and answers none;
\* the OTP stays as entered, and the reset-password request carries it.
C7_VerifyToResetIsLocal ==
    [][ /\ (step = "verify" /\ step' = "reset") =>
              /\ Len(otpValue) = OTP_LENGTH
              /\ otpValue' = otpValue
              /\ requests' = requests
              /\ pending' = pending
              /\ ~hook["content"].isLoading
        /\ OtpSubmit => (step' = "reset" /\ Len(otpValue') = OTP_LENGTH)
        /\ step = "reset" => otpValue' = otpValue
        /\ (Issues /\ Issued.op = RESET_PASSWORD) => Issued.otp = otpValue' ]_vars

\* C7 witness: a reset-password request has been issued with the six
\* characters entered at the verify step.
C7_Witness ==
    /\ step = "reset"
    /\ otpValue = <<"6", "5", "4", "3", "2", "1">>
    /\ \E k \in 1..Len(requests) :
          requests[k].op = RESET_PASSWORD /\ requests[k].otp = otpValue

\* C8: a Resend in the verify step (the send-OTP request being issued, and
\* its answer arriving, whatever it is) changes neither the step, nor the
\* stored email, nor the entered OTP value.
C8_ResendKeepsStepEmailOtp ==
    [][ (page = "forgot-password" /\ step = "verify" /\ requests' # requests)
            => (step' = "verify" /\ email' = email /\ otpValue' = otpValue) ]_vars

\* C8 witness: still in the verify step, with an OTP entered, after one
\* Resend failed and another succeeded.
C8_Witness ==
    /\ step = "verify"
    /\ otpValue # <<>>
    /\ \E j, k \in 1..Len(requests) :
          /\ j < k
          /\ requests[j].op = SEND_RESET_OTP /\ requests[j].result \in Failed
          /\ requests[k].op = SEND_RESET_OTP /\ requests[k].result = "ok"
          /\ requests[j].email = email /\ requests[k].email = email
          /\ (emailParam = <<>> => j > 1)

\* C9: after a failed send-OTP, resend or reset-password call of the
\* password-reset flow the step is the one the call was issued in and the
\* failure's message is shown by the form rendered for that step.
C9_FailureStaysAndShows ==
    [][ \A i \in {"form", "content", "reset"} :
          (/\ pending[i].req # 0
           /\ requests[pending[i].req].op \in {SEND_RESET_OTP, RESET_PASSWORD}
           /\ AnsweredFailed(pending[i].req))
          => /\ step' = step
             /\ RenderedInstance(step') = i
             /\ Shown(hook'[i].error) ]_vars

\* C10: the verify control of the OTP form is disabled unless the OTP value
\* has length 6 (and nothing is loading), so every OTP that leaves the
\* verify step of the password-reset flow or is sent by the
\* email-verification flow has length 6.
C10_OnlySixCharacterOtpSubmitted ==
    /\ \A k \in 1..Len(requests) :
          requests[k].op \in {VERIFY_EMAIL, RESET_PASSWORD}
              => Len(requests[k].otp) = OTP_LENGTH
    /\ step = "reset" => Len(otpValue) = OTP_LENGTH
    /\ \A i \in {"content", "verifyEmail"} :
          (RenderedInstance(step) = i /\ Len(otpValue) # OTP_LENGTH)
              => VerifyDisabled(hook[i].isLoading, otpValue)

\* C10 witness: both a length-5 value is sitting in the OTP input of the
\* email-verification page and a verify-email request has gone out.
C10_Witness ==
    /\ page = "verify-email"
    /\ Len(otpValue) = 5
    /\ \E k \in 1..Len(requests) : requests[k].op = VERIFY_EMAIL

----------------------------------------------------------------------------
(* The hooks on their own (hooks/auth).  Every action of every hook is a    *)
(* row: the cells it sets before its await (start), the authClient          *)
(* operation it awaits (op), whether it inspects the error of the result    *)
(* (inspects), the cell that receives a failure message (fail) with the     *)
(* fallback messages of the error branch and of the catch block, the other  *)
(* cells set on failure (failAlso) and on success (ok), the cells set when   *)
(* the action ends (fin), and the step it awaits next after a success        *)
(* (then).  The hooks do not serialize their actions: any number of          *)
(* invocations may be in flight in one instance.                             *)

\* at most this many invocations of hook actions are started in one run,
\* the load of the mount effect included
MaxCalls == 2

\* no cell is set
Nothing == <<>>

\* useState<boolean | null>: null, true, false
TRUE3 == "true"
FALSE3 == "false"

\* useLogin (part_003)
useLoginInit == [isLoading |-> FALSE, error |-> NULL, success |-> FALSE]

login ==
    [id |-> "useLogin.login", hook |-> "useLogin", user |-> TRUE,
     start |-> [isLoading |-> TRUE, error |-> NULL, success |-> FALSE],
     op |-> "signIn.email", inspects |-> TRUE,
     fail |-> "error", fallback |-> "Failed to sign in", thrown |-> "An error occurred",
     failAlso |-> Nothing, ok |-> [success |-> TRUE],
     fin |-> [isLoading |-> FALSE], then |-> "", callbacks |-> FALSE]

\* useRegister (use-register.ts)
useRegisterInit == [isLoading |-> FALSE, error |-> NULL, success |-> FALSE]

register ==
    [id |-> "useRegister.register", hook |-> "useRegister", user |-> TRUE,
     start |-> [isLoading |-> TRUE, error |-> NULL, success |-> FALSE],
     op |-> "signUp.email", inspects |-> TRUE,
     fail |-> "error", fallback |-> "Failed to register", thrown |-> "An error occurred",
     failAlso |-> Nothing, ok |-> [success |-> TRUE],
     fin |-> [isLoading |-> FALSE], then |-> "", callbacks |-> FALSE]

\* the result of authClient.signIn.social is not inspected
registerWithOAuth ==
    [id |-> "useRegister.registerWithOAuth", hook |-> "useRegister", user |-> TRUE,
     start |-> [isLoading |-> TRUE, error |-> NULL, success |-> FALSE],
     op |-> "signIn.social", inspects |-> FALSE,
     fail |-> "error", fallback |-> "", thrown |-> "Failed to sign in with OAuth",
     failAlso |-> Nothing, ok |-> [success |-> TRUE],
     fin |-> [isLoading |-> FALSE], then |-> "", callbacks |-> FALSE]

\* sendVerificationOTP does not call setSuccess(false) at its start
sendVerificationOTP ==
    [id |-> "useRegister.sendVerificationOTP", hook |-> "useRegister", user |-> TRUE,
     start |-> [isLoading |-> TRUE, error |-> NULL],
     op |-> SEND_VERIFICATION_OTP, inspects |-> TRUE,
     fail |-> "error", fallback |-> "Failed to send verification OTP",
     thrown |-> "An error occurred",
     failAlso |-> Nothing, ok |-> [success |-> TRUE],
     fin |-> [isLoading |-> FALSE], then |-> "", callbacks |-> FALSE]

\* useSignOut (part_004): the outcome is delivered through the fetchOptions
\* callbacks, which run options.onSuccess / options.onError and the redirect
useSignOutInit == [isLoading |-> FALSE, error |-> NULL]

signOut ==
    [id |-> "useSignOut.signOut", hook |-> "useSignOut", user |-> TRUE,
     start |-> [isLoading |-> TRUE, error |-> NULL],
     op |-> "signOut", inspects |-> TRUE,
     fail |-> "error", fallback |-> "Failed to sign out", thrown |-> "An error occurred",
     failAlso |-> Nothing, ok |-> Nothing,
     fin |-> [isLoading |-> FALSE], then |-> "", callbacks |-> TRUE]

\* useForgotPassword (part_004)
useForgotPasswordInit ==
    [isLoading |-> FALSE, error |-> NULL, success |-> FALSE, isOTPValid |-> NULL]

sendResetOTP ==
    [id |-> "useForgotPassword.sendResetOTP", hook |-> "useForgotPassword", user |-> TRUE,
     start |-> [isLoading |-> TRUE, error |-> NULL, success |-> FALSE],
     op |-> SEND_RESET_OTP, inspects |-> TRUE,
     fail |-> "error", fallback |-> "Failed to send reset OTP",
     thrown |-> "An error occurred",
     failAlso |-> Nothing, ok |-> [success |-> TRUE],
     fin |-> [isLoading |-> FALSE], then |-> "", callbacks |-> FALSE]

checkResetOTP ==
    [id |-> "useForgotPassword.checkResetOTP", hook |-> "useForgotPassword", user |-> TRUE,
     start |-> [isLoading |-> TRUE, error |-> NULL, isOTPValid |-> NULL],
     op |-> "emailOtp.checkVerificationOtp:forget-password", inspects |-> TRUE,
     fail |-> "error", fallback |-> "Invalid OTP",
     thrown |-> "An error occurred",
     failAlso |-> [isOTPValid |-> FALSE3], ok |-> [isOTPValid |-> TRUE3],
     fin |-> [isLoading |-> FALSE], then |-> "", callbacks |-> FALSE]

\* resetPassword up to its second await: after a result without error it goes
\* on to authClient.revokeOtherSessions()
resetPassword ==
    [id |-> "useForgotPassword.resetPassword", hook |-> "useForgotPassword", user |-> TRUE,
     start |-> [isLoading |-> TRUE, error |-> NULL, success |-> FALSE],
     op |-> RESET_PASSWORD, inspects |-> TRUE,
     fail |-> "error", fallback |-> "Failed to reset password",
     thrown |-> "An error occurred",
     failAlso |-> Nothing, ok |-> Nothing,
     fin |-> [isLoading |-> FALSE], then |-> "useForgotPassword.resetPassword/revokeOtherSessions", callbacks |-> FALSE]

\* resetPassword after its second await: the result object is not inspected,
\* an exception goes to the same catch block
resetPasswordRevoke ==
    [id |-> "useForgotPassword.resetPassword/revokeOtherSessions", hook |-> "useForgotPassword", user |-> FALSE,
     start |-> Nothing,
     op |-> REVOKE_OTHERS, inspects |-> FALSE,
     fail |-> "error", fallback |-> "",
     thrown |-> "An error occurred",
     failAlso |-> Nothing, ok |-> [success |-> TRUE],
     fin |-> [isLoading |-> FALSE], then |-> "", callbacks |-> FALSE]

\* useOTPVerification (part_004)
useOTPVerificationInit ==
    [isLoading |-> FALSE, error |-> NULL, success |-> FALSE, isValid |-> NULL]

sendOTP ==
    [id |-> "useOTPVerification.sendOTP", hook |-> "useOTPVerification", user |-> TRUE,
     start |-> [isLoading |-> TRUE, error |-> NULL, success |-> FALSE],
     op |-> SEND_VERIFICATION_OTP, inspects |-> TRUE,
     fail |-> "error", fallback |-> "Failed to send OTP",
     thrown |-> "An error occurred",
     failAlso |-> Nothing, ok |-> [success |-> TRUE],
     fin |-> [isLoading |-> FALSE], then |-> "", callbacks |-> FALSE]

checkOTP ==
    [id |-> "useOTPVerification.checkOTP", hook |-> "useOTPVerification", user |-> TRUE,
     start |-> [isLoading |-> TRUE, error |-> NULL, isValid |-> NULL],
     op |-> "emailOtp.checkVerificationOtp", inspects |-> TRUE,
     fail |-> "error", fallback |-> "Invalid OTP",
     thrown |-> "An error occurred",
     failAlso |-> [isValid |-> FALSE3], ok |-> [isValid |-> TRUE3],
     fin |-> [isLoading |-> FALSE], then |-> "", callbacks |-> FALSE]

verifyEmail ==
    [id |-> "useOTPVerification.verifyEmail", hook |-> "useOTPVerification", user |-> TRUE,
     start |-> [isLoading |-> TRUE, error |-> NULL, success |-> FALSE],
     op |-> VERIFY_EMAIL, inspects |-> TRUE,
     fail |-> "error", fallback |-> "Failed to verify email",
     thrown |-> "An error occurred",
     failAlso |-> Nothing, ok |-> [success |-> TRUE],
     fin |-> [isLoading |-> FALSE], then |-> "", callbacks |-> FALSE]

\* useTwoFactor (part_002): three groups of cells, one per action
useTwoFactorInit ==
    [isEnabling |-> FALSE, enableError |-> NULL,
     isVerifying |-> FALSE, verifyError |-> NULL, verifySuccess |-> FALSE,
     isDisabling |-> FALSE, disableError |-> NULL, disableSuccess |-> FALSE]

enableTwoFactor ==
    [id |-> "useTwoFactor.enableTwoFactor", hook |-> "useTwoFactor", user |-> TRUE,
     start |-> [isEnabling |-> TRUE, enableError |-> NULL],
     op |-> "twoFactor.enable", inspects |-> TRUE,
     fail |-> "enableError", fallback |-> "Failed to enable two-factor authentication",
     thrown |-> "An error occurred while enabling 2FA",
     failAlso |-> Nothing, ok |-> Nothing,
     fin |-> [isEnabling |-> FALSE], then |-> "", callbacks |-> FALSE]

verifyTwoFactor ==
    [id |-> "useTwoFactor.verifyTwoFactor", hook |-> "useTwoFactor", user |-> TRUE,
     start |-> [isVerifying |-> TRUE, verifyError |-> NULL, verifySuccess |-> FALSE],
     op |-> "twoFactor.verifyTotp", inspects |-> TRUE,
     fail |-> "verifyError", fallback |-> "Failed to verify code",
     thrown |-> "An error occurred during verification",
     failAlso |-> Nothing, ok |-> [verifySuccess |-> TRUE],
     fin |-> [isVerifying |-> FALSE], then |-> "", callbacks |-> FALSE]

disableTwoFactor ==
    [id |-> "useTwoFactor.disableTwoFactor", hook |-> "useTwoFactor", user |-> TRUE,
     start |-> [isDisabling |-> TRUE, disableError |-> NULL, disableSuccess |-> FALSE],
     op |-> "twoFactor.disable", inspects |-> TRUE,
     fail |-> "disableError", fallback |-> "Failed to disable two-factor authentication",
     thrown |-> "An error occurred while disabling 2FA",
     failAlso |-> Nothing, ok |-> [disableSuccess |-> TRUE],
     fin |-> [isDisabling |-> FALSE], then |-> "", callbacks |-> FALSE]

\* useSession (use-session.ts): isLoading starts true, the session is loaded
\* by the mount effect
useSessionInit ==
    [session |-> NULL, isLoading |-> TRUE, error |-> NULL,
     isRefreshing |-> FALSE, isListingSessions |-> FALSE,
     isRevokingSession |-> FALSE, isRevokingOtherSessions |-> FALSE,
     listError |-> NULL, revokeError |-> NULL]

\* loadSession of the mount effect: setIsLoading(true); await fetchSession();
\* setIsLoading(false).  fetchSession sets no cell before its await and
\* catches every exception itself
loadSession ==
    [id |-> "useSession.loadSession", hook |-> "useSession", user |-> FALSE,
     start |-> [isLoading |-> TRUE],
     op |-> "getSession", inspects |-> TRUE,
     fail |-> "error", fallback |-> "Failed to fetch session",
     thrown |-> "An error occurred",
     failAlso |-> [session |-> NULL], ok |-> [session |-> "data", error |-> NULL],
     fin |-> [isLoading |-> FALSE], then |-> "", callbacks |-> FALSE]

\* setIsRefreshing(true); await fetchSession(); setIsRefreshing(false)
refreshSession ==
    [id |-> "useSession.refreshSession", hook |-> "useSession", user |-> TRUE,
     start |-> [isRefreshing |-> TRUE],
     op |-> "getSession", inspects |-> TRUE,
     fail |-> "error", fallback |-> "Failed to fetch session",
     thrown |-> "An error occurred",
     failAlso |-> [session |-> NULL], ok |-> [session |-> "data", error |-> NULL],
     fin |-> [isRefreshing |-> FALSE], then |-> "", callbacks |-> FALSE]

listSessions ==
    [id |-> "useSession.listSessions", hook |-> "useSession", user |-> TRUE,
     start |-> [isListingSessions |-> TRUE, listError |-> NULL],
     op |-> "listSessions", inspects |-> TRUE,
     fail |-> "listError", fallback |-> "Failed to list sessions",
     thrown |-> "An error occurred while listing sessions",
     failAlso |-> Nothing, ok |-> Nothing,
     fin |-> [isListingSessions |-> FALSE], then |-> "", callbacks |-> FALSE]

\* revokeSession up to its second await: after a result without error it
\* awaits refreshSession()
revokeSession ==
    [id |-> "useSession.revokeSession", hook |-> "useSession", user |-> TRUE,
     start |-> [isRevokingSession |-> TRUE, revokeError |-> NULL],
     op |-> "revokeSession", inspects |-> TRUE,
     fail |-> "revokeError", fallback |-> "Failed to revoke session",
     thrown |-> "An error occurred while revoking session",
     failAlso |-> Nothing, ok |-> Nothing,
     fin |-> [isRevokingSession |-> FALSE],
     then |-> "useSession.revokeSession/refreshSession", callbacks |-> FALSE]

\* the refreshSession() awaited by revokeSession, and revokeSession's finally
revokeSessionRefresh ==
    [id |-> "useSession.revokeSession/refreshSession", hook |-> "useSession",
     user |-> FALSE,
     start |-> [isRefreshing |-> TRUE],
     op |-> "getSession", inspects |-> TRUE,
     fail |-> "error", fallback |-> "Failed to fetch session",
     thrown |-> "An error occurred",
     failAlso |-> [session |-> NULL], ok |-> [session |-> "data", error |-> NULL],
     fin |-> [isRefreshing |-> FALSE, isRevokingSession |-> FALSE],
     then |-> "", callbacks |-> FALSE]

revokeOtherSessions ==
    [id |-> "useSession.revokeOtherSessions", hook |-> "useSession", user |-> TRUE,
     start |-> [isRevokingOtherSessions |-> TRUE, revokeError |-> NULL],
     op |-> REVOKE_OTHERS, inspects |-> TRUE,
     fail |-> "revokeError", fallback |-> "Failed to revoke other sessions",
     thrown |-> "An error occurred while revoking other sessions",
     failAlso |-> Nothing, ok |-> Nothing,
     fin |-> [isRevokingOtherSessions |-> FALSE],
     then |-> "useSession.revokeOtherSessions/refreshSession", callbacks |-> FALSE]

\* the refreshSession() awaited by revokeOtherSessions, and its finally
revokeOtherSessionsRefresh ==
    [id |-> "useSession.revokeOtherSessions/refreshSession", hook |-> "useSession",
     user |-> FALSE,
     start |-> [isRefreshing |-> TRUE],
     op |-> "getSession", inspects |-> TRUE,
     fail |-> "error", fallback |-> "Failed to fetch session",
     thrown |-> "An error occurred",
     failAlso |-> [session |-> NULL], ok |-> [session |-> "data", error |-> NULL],
     fin |-> [isRefreshing |-> FALSE, isRevokingOtherSessions |-> FALSE],
     then |-> "", callbacks |-> FALSE]

\* every row
HookActions ==
    << login, register, registerWithOAuth, sendVerificationOTP, signOut,
       sendResetOTP, checkResetOTP, resetPassword, resetPasswordRevoke,
       sendOTP, checkOTP, verifyEmail,
       enableTwoFactor, verifyTwoFactor, disableTwoFactor,
       loadSession, refreshSession, listSessions,
       revokeSession, revokeSessionRefresh,
       revokeOtherSessions, revokeOtherSessionsRefresh >>

Row(id) == HookActions[CHOOSE i \in DOMAIN HookActions : HookActions[i].id = id]

\* the actions a caller of the hook can invoke
UserActions(hookName) ==
    { HookActions[i].id : i \in { j \in DOMAIN HookActions :
                                    /\ HookActions[j].hook = hookName
                                    /\ HookActions[j].user } }

Hooks ==
    { "useLogin", "useRegister", "useSignOut", "useForgotPassword",
      "useOTPVerification", "useTwoFactor", "useSession" }

\* the useState initial values of a hook
HookInit(hookName) ==
    CASE hookName = "useLogin" -> useLoginInit
      [] hookName = "useRegister" -> useRegisterInit
      [] hookName = "useSignOut" -> useSignOutInit
      [] hookName = "useForgotPassword" -> useForgotPasswordInit
      [] hookName = "useOTPVerification" -> useOTPVerificationInit
      [] hookName = "useTwoFactor" -> useTwoFactorInit
      [] OTHER -> useSessionInit

\* the setState calls upd applied to the cells c of an instance (one batch)
Apply(c, upd) == [x \in DOMAIN c |-> IF x \in DOMAIN upd THEN upd[x] ELSE c[x]]

\* the cells after the part of row r that runs before its await
startCells(c, r) == Apply(c, r.start)

\* whether row r takes answer o as a failure: an exception always, an error
\* in the result only when the row inspects it
Fails(r, o) == o.kind = "throw" \/ (o.kind = "error" /\ r.inspects)

\* the message row r stores for a failure o
FailureMessage(r, o) ==
    IF o.kind = "throw"
    THEN IF o.isError THEN o.message ELSE r.thrown
    ELSE OrElse(o.message, r.fallback)

\* failCells without the finally block
failCells_noFinally(c, r, msg) == Apply(Apply(c, r.fail :> msg), r.failAlso)

\* the cells after row r ended in a failure with message msg, finally included
failCells(c, r, msg) == Apply(Apply(Apply(c, r.fail :> msg), r.failAlso), r.fin)

\* the cells after row r ended without failure, finally included
okCells(c, r) == Apply(Apply(c, r.ok), r.fin)

\* signOut options: redirectTo ("" when not given) and whether the onSuccess
\* and onError callbacks are given; NoOptions for every other action
NoOptions == [redirectTo |-> "", onSuccess |-> FALSE, onError |-> FALSE]

SignOutOptions ==
    { NoOptions,
      [redirectTo |-> "/login", onSuccess |-> FALSE, onError |-> FALSE],
      [redirectTo |-> "/login", onSuccess |-> TRUE, onError |-> TRUE] }

\* the arguments of an action that the properties look at
NoArg == [name |-> <<>>, email |-> <<>>, password |-> <<>>]

\* onSuccess with the redirect made before the callback runs
onSuccess_redirectFirst(k, opts) ==
    (IF opts.redirectTo # ""
     THEN << [kind |-> "href", call |-> k, to |-> opts.redirectTo] >> ELSE <<>>)
    \o (IF opts.onSuccess THEN << [kind |-> "onSuccess", call |-> k, to |-> ""] >> ELSE <<>>)

\* fetchOptions.onSuccess of signOut: options?.onSuccess?.() and then, if
\* redirectTo is given, window.location.href = redirectTo
onSuccess(k, opts) ==
    (IF opts.onSuccess THEN << [kind |-> "onSuccess", call |-> k, to |-> ""] >> ELSE <<>>)
    \o (IF opts.redirectTo # ""
        THEN << [kind |-> "href", call |-> k, to |-> opts.redirectTo] >> ELSE <<>>)

\* fetchOptions.onError and the catch block of signOut: options?.onError?.(...)
onError(k, opts, msg) ==
    IF opts.onError THEN << [kind |-> "onError", call |-> k, to |-> msg] >> ELSE <<>>

\* what the promise of action id resolves to: checkOTP and checkResetOTP
\* return false from the error branch and the catch block and true otherwise,
\* enableTwoFactor returns null or the enrolment data, listSessions returns
\* [] or the list, every other action returns nothing
returnValue(id, failed) ==
    CASE id \in {"useOTPVerification.checkOTP", "useForgotPassword.checkResetOTP"} ->
            IF failed THEN FALSE3 ELSE TRUE3
      [] id = "useTwoFactor.enableTwoFactor" -> IF failed THEN NULL ELSE "data"
      [] id = "useSession.listSessions" -> IF failed THEN "[]" ELSE "data"
      [] OTHER -> "void"

\* invocation k is in flight in the instance of hook hookName
InFlight(k, hookName) ==
    calls[k].status = "flight" /\ Row(calls[k].action).hook = hookName

\* an action is invoked: it runs up to its first await
invoke(id, arg, opts) ==
    LET r == Row(id) IN
    /\ cells' = [cells EXCEPT ![r.hook] = startCells(@, r)]
    /\ calls' = Append([k \in DOMAIN calls |->
                            IF InFlight(k, r.hook)
                            THEN [calls[k] EXCEPT !.overlapped = TRUE]
                            ELSE calls[k]],
                        [action |-> id, stage |-> id, status |-> "flight",
                         req |-> Len(net) + 1, opts |-> opts, message |-> NULL,
                         returned |-> "pending",
                         overlapped |-> \E k \in DOMAIN calls : InFlight(k, r.hook)])
    /\ net' = Append(net, [op |-> r.op, call |-> Len(calls) + 1, arg |-> arg,
                           result |-> "pending"])
    /\ UNCHANGED effects

\* settleFailed that issues the failed request once more instead of ending
settleFailed_retries(k, o) ==
    LET c == calls[k]
        r == Row(c.stage)
    IN
    /\ calls' = [calls EXCEPT ![k].req = Len(net) + 1]
    /\ net' = Append([net EXCEPT ![c.req].result = o.kind],
                     [op |-> r.op, call |-> k, arg |-> net[c.req].arg,
                      result |-> "pending"])
    /\ UNCHANGED <<cells, effects>>

\* the answer o that invocation k awaits is a failure: the error branch or
\* the catch block, then finally; the action ends
settleFailed(k, o) ==
    LET c == calls[k]
        r == Row(c.stage)
        msg == FailureMessage(r, o)
    IN
    /\ cells' = [cells EXCEPT ![r.hook] = failCells(@, r, msg)]
    /\ calls' = [calls EXCEPT ![k].status = "failed", ![k].message = msg,
                               ![k].returned = returnValue(c.action, TRUE)]
    /\ net' = [net EXCEPT ![c.req].result = o.kind]
    /\ effects' = IF r.callbacks THEN effects \o onError(k, c.opts, msg)
                  ELSE effects

\* the answer o to the request that invocation k awaits arrives: the action
\* runs to its next await or to its end
settle(k, o) ==
    LET c == calls[k]
        r == Row(c.stage)
        answered == [net EXCEPT ![c.req].result = o.kind]
    IN
    IF Fails(r, o)
    THEN settleFailed(k, o)
    ELSE IF r.then # ""
    THEN /\ cells' = [cells EXCEPT ![r.hook] = startCells(@, Row(r.then))]
         /\ calls' = [calls EXCEPT ![k].stage = r.then, ![k].req = Len(net) + 1]
         /\ net' = Append(answered, [op |-> Row(r.then).op, call |-> k,
                                     arg |-> NoArg, result |-> "pending"])
         /\ UNCHANGED effects
    ELSE /\ cells' = [cells EXCEPT ![r.hook] = okCells(@, r)]
         /\ calls' = [calls EXCEPT ![k].status = "ok",
                                    ![k].returned = returnValue(c.action, FALSE)]
         /\ net' = answered
         /\ effects' = IF r.callbacks THEN effects \o onSuccess(k, c.opts)
                       ELSE effects

\* the variables of the two page flows
flowVars == <<page, emailParam, step, email, otpValue, formData, fieldErrors,
              hook, pending, requests, pushed, visited>>

\* one hook instance, used by an arbitrary caller
InitHooks ==
    /\ page = "none"
    /\ emailParam = <<>>
    /\ step = "none"
    /\ email = <<>>
    /\ otpValue = <<>>
    /\ formData = NoArg
    /\ fieldErrors = [email |-> "", password |-> ""]
    /\ hook = <<>>
    /\ pending = <<>>
    /\ requests = <<>>
    /\ pushed = <<>>
    /\ visited = <<>>
    /\ \E h \in Hooks : cells = (h :> HookInit(h))
    /\ calls = <<>>
    /\ net = <<>>
    /\ effects = <<>>
    /\ GuardsIdle

\* whether the mount effect of useSession has run
Mounted == \E k \in DOMAIN calls : calls[k].action = loadSession.id

\* useSession's mount effect runs loadSession()
Mount ==
    /\ "useSession" \in DOMAIN cells
    /\ ~Mounted
    /\ invoke(loadSession.id, NoArg, NoOptions)
    /\ UNCHANGED <<flowVars, guardVars>>

\* the caller invokes an action of the hook
Invoke ==
    /\ Len(calls) < MaxCalls
    /\ "useSession" \in DOMAIN cells => Mounted
    /\ \E h \in DOMAIN cells : \E id \in UserActions(h) :
         \E opts \in (IF Row(id).callbacks THEN SignOutOptions ELSE {NoOptions}) :
            invoke(id, NoArg, opts)
    /\ UNCHANGED <<flowVars, guardVars>>

\* the backend answers a request in flight
Settle ==
    /\ \E k \in DOMAIN calls : \E o \in Outcomes :
         /\ calls[k].status = "flight"
         /\ settle(k, o)
    /\ UNCHANGED <<flowVars, guardVars>>

NextHooks == Mount \/ Invoke \/ Settle

SpecHooks == InitHooks /\ [][NextHooks]_vars

----------------------------------------------------------------------------
(* Vocabulary of the hook properties *)

\* the loading flags of a hook: the cells its actions reset when they end
Flags(hookName) ==
    UNION { DOMAIN HookActions[i].fin :
              i \in { j \in DOMAIN HookActions : HookActions[j].hook = hookName } }

\* invocation k is in flight and its action, at the step it has reached,
\* resets flag f when it ends
Holds(k, f) == calls[k].status = "flight" /\ f \in DOMAIN Row(calls[k].stage).fin

\* invocation k settles in this step
Settles(k) == calls[k].status = "flight" /\ calls'[k].status # "flight"

\* flag f of hook h is true only while an invocation holding it is in flight
TrueOnlyInFlight(h, f) ==
    cells[h][f] = TRUE => \E k \in DOMAIN calls : Holds(k, f)

\* when an invocation settles in this step, its loading flags are false after it
FalseAfterSettle ==
    \A k \in DOMAIN calls :
        Settles(k) =>
            \A f \in DOMAIN Row(calls[k].stage).fin :
                cells'[Row(calls[k].stage).hook][f] = FALSE

----------------------------------------------------------------------------
(* C11..C20 *)

\* C11 (as stated): in every hook, each loading flag is false before the
\* first call, is true only while an invocation of its action is in flight,
\* and is false after every invocation settles, whatever the outcome.
\* useSession.isLoading starts true before the mount effect has issued the
\* load, so the statement fails there.
C11_LoadingFlags ==
    /\ [](\A h \in DOMAIN cells : \A f \in Flags(h) :
            /\ calls = <<>> => cells[h][f] = FALSE
            /\ TrueOnlyInFlight(h, f))
    /\ [][FalseAfterSettle]_vars

\* C11 (amended): the same for every loading flag except that
\* useSession.isLoading is true from construction until the load issued by
\* the mount effect settles; from the mount on it too is true only while the
\* load is in flight, and every flag is false after every settle.
C11_LoadingFlagsAfterMount ==
    /\ [](\A h \in DOMAIN cells : \A f \in Flags(h) :
            IF h = "useSession" /\ f = "isLoading" /\ ~Mounted
            THEN cells[h][f] = TRUE
            ELSE /\ calls = <<>> => cells[h][f] = FALSE
                 /\ TrueOnlyInFlight(h, f))
    /\ [][FalseAfterSettle]_vars

\* a useSession instance whose load failed and whose refresh threw: both
\* have settled and isLoading and isRefreshing are false
C11_Witness ==
    /\ "useSession" \in DOMAIN cells
    /\ Len(calls) = 2
    /\ calls[1].action = loadSession.id /\ calls[1].status = "failed"
    /\ calls[2].action = refreshSession.id /\ calls[2].status = "failed"
    /\ net[calls[2].req].result = "throw"
    /\ ~cells["useSession"].isLoading
    /\ ~cells["useSession"].isRefreshing

\* an invocation starts in this step
Starts == Len(calls') = Len(calls) + 1

\* the invocation that starts in this step
Started == calls'[Len(calls')]

\* C12: every hook action sets the error field it reports into to null at
\* the start of each invocation, before the request is issued, so an error of
\* an earlier attempt is not visible while the next attempt is in flight.
\* useSession.refreshSession (fetchSession) clears error only after a
\* successful answer: the error of a failed load is still set while the
\* refresh is in flight.
C12_ErrorClearedAtStart ==
    [][Starts =>
         cells'[Row(Started.action).hook][Row(Started.action).fail] = NULL]_vars

\* the named error fields of a hook: the cells its actions report failures into
ErrorFields(hookName) ==
    { HookActions[i].fail :
        i \in { j \in DOMAIN HookActions : HookActions[j].hook = hookName } }

\* C13: in a hook with several named error fields (useTwoFactor: enableError,
\* verifyError, disableError; useSession: error, listError, revokeError), after
\* any settled call at most one of those fields is non-null.  Each action
\* clears only its own field, so the error of a failed enableTwoFactor is
\* still set when a later verifyTwoFactor fails.
C13_AtMostOneNamedError ==
    [][\A k \in DOMAIN calls :
         Settles(k) =>
            LET h == Row(calls[k].action).hook IN
            Cardinality({ f \in ErrorFields(h) : cells'[h][f] # NULL }) <= 1]_vars

\* the actions that report into the success cell: they reset it at their start
ReportsSuccess(id) == "success" \in DOMAIN Row(id).start

\* C15: within one hook instance, when invocations overlap in flight, the
\* error and success cells after all of them have settled are those of the
\* invocation that settled last: success true and error null if it
\* succeeded, error its message and success false if it failed.  The
\* invocations here are of actions that report into both cells.  A failure
\* that settles after an overlapping success leaves success true beside its
\* error, and a success that settles after an overlapping failure leaves the
\* error set.
C15_LastSettledWins ==
    [][\A k \in DOMAIN calls :
         LET h == Row(calls[k].action).hook IN
         ( /\ Settles(k)
           /\ calls[k].overlapped
           /\ \A j \in DOMAIN calls : Row(calls[j].action).hook = h =>
                  /\ ReportsSuccess(calls[j].action)
                  /\ calls'[j].status # "flight" )
         => IF calls'[k].status = "ok"
            THEN cells'[h].success /\ cells'[h].error = NULL
            ELSE ~cells'[h].success /\ cells'[h].error = calls'[k].message]_vars

\* C17: in the reset step, submitting a password and a confirmPassword that
\* differ issues no request (reset-password is not invoked), puts an error on
\* the confirmPassword field and leaves the step at reset.
C17_MismatchBlockedLocally ==
    [][(ResetSubmit /\ formData.password # formData.confirmPassword) =>
          /\ requests' = requests
          /\ pending'["reset"] = NoCall
          /\ fieldErrors'.confirmPassword # ""
          /\ step' = "reset"]_vars

\* the reset form after such a submission: a password that passes every rule
\* beside a different confirmation, the error on confirmPassword, no
\* reset-password request
C17_Witness ==
    /\ page = "forgot-password" /\ step = "reset"
    /\ passwordIssues(formData.password) = <<>>
    /\ formData.confirmPassword # <<>>
    /\ formData.password # formData.confirmPassword
    /\ fieldErrors.confirmPassword = "Passwords do not match"
    /\ fieldErrors.password = ""
    /\ \A k \in DOMAIN requests : requests[k].op # RESET_PASSWORD

----------------------------------------------------------------------------
(* The login form, the registration form and the logout button *)

NAME_MIN_LENGTH == 2
NAME_MAX_LENGTH == 100

\* what the user may type into the name input
Names == { <<>>, <<"B", "o">> }

\* what the user may type into the email input of these forms
FormEmails == { <<>>, <<"a", "@", "b", ".", "c", "o">> }

\* registerSchema, name field: the messages in check order
nameIssues(n) ==
    (IF Len(n) < NAME_MIN_LENGTH
        THEN <<"Name must be at least 2 characters">> ELSE <<>>)
    \o (IF Len(n) > NAME_MAX_LENGTH
        THEN <<"Name must not exceed 100 characters">> ELSE <<>>)
    \o (IF Len(n) = 0 \/ \E i \in 1..Len(n) :
                            n[i] \notin UpperCase \cup LowerCase \cup {" ", "'", "-"}
        THEN <<"Name can only contain letters, spaces, hyphens, and apostrophes">>
        ELSE <<>>)

\* registerSchema and loginSchema, email field: the messages in check order
emailIssues(e) ==
    (IF Len(e) < 1 THEN <<"Email is required">> ELSE <<>>)
    \o (IF ~IsEmail(e) THEN <<"Please enter a valid email address">> ELSE <<>>)

\* loginSchema, password field: z.string().min(1)
loginPasswordIssues(p) ==
    IF Len(p) < 1 THEN <<"Password is required">> ELSE <<>>

\* registerSchema.safeParse(data): the messages of each field
\* (error.flatten().fieldErrors); the refinement reports on confirmPassword
registerSchema(data) ==
    [name |-> nameIssues(data.name),
     email |-> emailIssues(data.email),
     password |-> passwordIssues(data.password),
     confirmPassword |-> confirmPasswordIssues(data.password, data.confirmPassword)]

\* loginSchema.safeParse(data): the messages of each field
loginSchema(data) ==
    [email |-> emailIssues(data.email),
     password |-> loginPasswordIssues(data.password)]

\* !validation.success
Invalid(issues) == \E f \in DOMAIN issues : issues[f] # <<>>

\* the flow variables the forms below leave alone
restVars == <<emailParam, step, email, otpValue, hook, pending, requests, visited,
              guardVars>>

\* LogoutButton's props: redirectTo defaults to "/login"
LogoutProps == { o \in SignOutOptions : o.redirectTo # "" }

\* the login page, the registration page, or the home page with its LogoutButton
InitForms ==
    /\ page \in {"login", "register", "home"}
    /\ emailParam = <<>>
    /\ step = "none"
    /\ email = <<>>
    /\ otpValue = <<>>
    /\ formData = IF page = "register"
                  THEN [name |-> <<>>, email |-> <<>>, password |-> <<>>,
                        confirmPassword |-> <<>>]
                  ELSE [email |-> <<>>, password |-> <<>>]
    /\ fieldErrors = IF page = "register"
                     THEN [name |-> "", email |-> "", password |-> "",
                           confirmPassword |-> ""]
                     ELSE [email |-> "", password |-> ""]
    /\ hook = [i \in Instances |-> useHookInit]
    /\ pending = [i \in Instances |-> NoCall]
    /\ requests = <<>>
    /\ pushed = <<>>
    /\ visited = <<>>
    /\ cells = CASE page = "login" ->
                      [h \in {"useLogin", "useRegister"} |-> HookInit(h)]
                 [] page = "register" -> [h \in {"useRegister"} |-> HookInit(h)]
                 [] OTHER -> [h \in {"useSignOut"} |-> HookInit(h)]
    /\ calls = <<>>
    /\ net = <<>>
    /\ effects = <<>>
    /\ GuardsIdle

\* what may be typed into field f
Typed(f) ==
    CASE f = "name" -> Names
      [] f = "email" -> FormEmails
      [] OTHER -> Passwords

\* LoginForm: every input and button has disabled={isLoading}, the isLoading
\* of useLogin; the OAuth buttons call registerWithOAuth of useRegister
LoginDisabled == cells["useLogin"].isLoading

\* RegisterForm: every input and button has disabled={isLoading} of useRegister
RegisterDisabled == cells["useRegister"].isLoading

\* LogoutButton: disabled={isLoading} of useSignOut
LogoutDisabled == cells["useSignOut"].isLoading

\* LoginForm.handleInputChange(field, v)
LoginInputChange ==
    /\ page = "login"
    /\ ~LoginDisabled
    /\ \E f \in {"email", "password"} : \E v \in Typed(f) :
        /\ formData' = [formData EXCEPT ![f] = v]
        /\ fieldErrors' = [fieldErrors EXCEPT ![f] = ""]
    /\ UNCHANGED <<page, pushed, cells, calls, net, effects, restVars>>

\* LoginForm.handleSubmit up to await login(...)
LoginSubmit ==
    /\ page = "login"
    /\ ~LoginDisabled
    /\ LET issues == loginSchema(formData) IN
       IF Invalid(issues)
       THEN /\ fieldErrors' = [email |-> FirstOr(issues.email),
                               password |-> FirstOr(issues.password)]
            /\ UNCHANGED <<cells, calls, net, effects, guardVars>>
       ELSE /\ Len(calls) < MaxCalls
            /\ fieldErrors' = [email |-> "", password |-> ""]
            /\ invoke(login.id,
                      [name |-> <<>>, email |-> formData.email,
                       password |-> formData.password],
                      NoOptions)
    /\ UNCHANGED <<page, formData, pushed, restVars>>

\* the rest of LoginForm.handleSubmit: login settles, nothing follows it
LoginSettle ==
    /\ page = "login"
    /\ \E k \in DOMAIN calls : \E o \in Outcomes :
        /\ calls[k].status = "flight" /\ calls[k].action = login.id
        /\ settle(k, o)
    /\ UNCHANGED <<page, formData, fieldErrors, pushed, restVars>>

\* LoginForm.handleOAuthLogin(provider) up to await registerWithOAuth(...)
LoginOAuth ==
    /\ page = "login"
    /\ ~LoginDisabled
    /\ Len(calls) < MaxCalls
    /\ invoke(registerWithOAuth.id, NoArg, NoOptions)
    /\ UNCHANGED <<page, formData, fieldErrors, pushed, restVars>>

\* the rest of handleOAuthLogin: registerWithOAuth settles
LoginOAuthSettle ==
    /\ page = "login"
    /\ \E k \in DOMAIN calls : \E o \in Outcomes :
        /\ calls[k].status = "flight" /\ calls[k].action = registerWithOAuth.id
        /\ settle(k, o)
    /\ UNCHANGED <<page, formData, fieldErrors, pushed, restVars>>

\* RegisterForm.handleInputChange(field, v)
RegisterInputChange ==
    /\ page = "register"
    /\ ~RegisterDisabled
    /\ \E f \in {"name", "email", "password", "confirmPassword"} : \E v \in Typed(f) :
        /\ formData' = [formData EXCEPT ![f] = v]
        /\ fieldErrors' = [fieldErrors EXCEPT ![f] = ""]
    /\ UNCHANGED <<page, pushed, cells, calls, net, effects, restVars>>

\* RegisterForm.handleSubmit up to await register(...)
RegisterSubmit ==
    /\ page = "register"
    /\ ~RegisterDisabled
    /\ LET issues == registerSchema(formData) IN
       IF Invalid(issues)
       THEN /\ fieldErrors' = [f \in DOMAIN issues |-> FirstOr(issues[f])]
            /\ UNCHANGED <<cells, calls, net, effects, guardVars>>
       ELSE /\ Len(calls) < MaxCalls
            /\ fieldErrors' = [f \in DOMAIN issues |-> ""]
            /\ invoke(register.id,
                      [name |-> formData.name, email |-> formData.email,
                       password |-> formData.password],
                      NoOptions)
    /\ UNCHANGED <<page, formData, pushed, restVars>>

\* RegisterForm.handleSubmit after await register(...), without looking at
\* how register ended: router.push(`/verify-email?email=${encodeURIComponent(email)}`)
RegisterSubmitRest == pushed' = Append(pushed, "/verify-email?email=")

\* the rest of RegisterForm.handleSubmit: register settles, then the push
RegisterSettle ==
    /\ page = "register"
    /\ \E k \in DOMAIN calls : \E o \in Outcomes :
        /\ calls[k].status = "flight" /\ calls[k].action = register.id
        /\ settle(k, o)
    /\ RegisterSubmitRest
    /\ UNCHANGED <<page, formData, fieldErrors, restVars>>

\* RegisterForm.handleOAuthRegister(provider) up to await registerWithOAuth(...)
RegisterOAuth ==
    /\ page = "register"
    /\ ~RegisterDisabled
    /\ Len(calls) < MaxCalls
    /\ invoke(registerWithOAuth.id, NoArg, NoOptions)
    /\ UNCHANGED <<page, formData, fieldErrors, pushed, restVars>>

\* the rest of handleOAuthRegister: registerWithOAuth settles
RegisterOAuthSettle ==
    /\ page = "register"
    /\ \E k \in DOMAIN calls : \E o \in Outcomes :
        /\ calls[k].status = "flight" /\ calls[k].action = registerWithOAuth.id
        /\ settle(k, o)
    /\ UNCHANGED <<page, formData, fieldErrors, pushed, restVars>>

\* LogoutButton.handleLogout up to await signOut({redirectTo, onSuccess, onError})
Logout ==
    /\ page = "home"
    /\ ~LogoutDisabled
    /\ Len(calls) < MaxCalls
    /\ \E props \in LogoutProps : invoke(signOut.id, NoArg, props)
    /\ UNCHANGED <<page, formData, fieldErrors, pushed, restVars>>

\* the rest of handleLogout: signOut settles, its callbacks run
LogoutSettle ==
    /\ page = "home"
    /\ \E k \in DOMAIN calls : \E o \in Outcomes :
        /\ calls[k].status = "flight" /\ calls[k].action = signOut.id
        /\ settle(k, o)
    /\ UNCHANGED <<page, formData, fieldErrors, pushed, restVars>>

NextForms ==
    \/ LoginInputChange
    \/ LoginSubmit
    \/ LoginSettle
    \/ LoginOAuth
    \/ LoginOAuthSettle
    \/ RegisterInputChange
    \/ RegisterSubmit
    \/ RegisterSettle
    \/ RegisterOAuth
    \/ RegisterOAuthSettle
    \/ Logout
    \/ LogoutSettle

SpecForms == InitForms /\ [][NextForms]_vars

\* every page of the application: the two flows and the forms
InitApp == Init \/ InitForms

NextApp == Next \/ NextForms

SpecApp == InitApp /\ [][NextApp]_vars

\* C14: every control that triggers a hook action is disabled while the
\* loading flag of the hook instance performing the action is true, so two
\* invocations of the same action of one hook instance are never in flight
\* together.  The OAuth buttons of LoginForm are disabled by the isLoading of
\* useLogin but call registerWithOAuth of useRegister, whose isLoading the
\* form never reads: a second click starts a second registerWithOAuth while
\* the first is in flight.
C14_NoTwoInFlight ==
    \A j, k \in DOMAIN calls :
        (j # k /\ calls[j].status = "flight" /\ calls[k].status = "flight")
            => calls[j].action # calls[k].action

\* the complexity rule: at least 8 characters with an uppercase letter, a
\* lowercase letter, a digit and a special character
Complex(p) ==
    /\ Len(p) >= 8
    /\ \E i \in 1..Len(p) : p[i] \in UpperCase
    /\ \E i \in 1..Len(p) : p[i] \in LowerCase
    /\ \E i \in 1..Len(p) : p[i] \in Digit
    /\ \E i \in 1..Len(p) : p[i] \notin UpperCase \cup LowerCase \cup Digit

\* the passwords sent by the registration form and by the reset step are complex
RegisterAndResetComplex ==
    /\ \A i \in DOMAIN net : net[i].op = register.op => Complex(net[i].arg.password)
    /\ \A i \in DOMAIN requests :
          requests[i].op = RESET_PASSWORD => Complex(requests[i].password)

\* C16 (as stated): a password that fails the complexity rule is blocked by
\* local validation in the registration form, in the login form and in the
\* reset step: no request carries it.  loginSchema asks only for a non-empty
\* password, so the login form sends a password that fails the rule.
C16_WeakPasswordNeverSent ==
    /\ RegisterAndResetComplex
    /\ \A i \in DOMAIN net : net[i].op = login.op => Complex(net[i].arg.password)

\* C16 (amended): a password that fails the complexity rule is blocked by
\* local validation in the registration form and in the reset step, and no
\* request carries it; the login form blocks only an empty password.
C16_WeakPasswordNeverRegisteredOrReset ==
    /\ RegisterAndResetComplex
    /\ \A i \in DOMAIN net : net[i].op = login.op => net[i].arg.password # <<>>

\* the registration form after a submission whose only fault is a password of
\* 8 characters that fails the rule: the error is on the password field and
\* no request was issued
C16_Witness ==
    /\ page = "register"
    /\ nameIssues(formData.name) = <<>>
    /\ emailIssues(formData.email) = <<>>
    /\ Len(formData.password) >= 8 /\ ~Complex(formData.password)
    /\ formData.confirmPassword = formData.password
    /\ fieldErrors.password = "Password must contain at least one uppercase letter"
    /\ fieldErrors.confirmPassword = ""
    /\ net = <<>>

\* the navigations window.location.href = ... made by invocation k
Hrefs(k) == { i \in DOMAIN effects : effects[i].kind = "href" /\ effects[i].call = k }

C19_RedirectOnlyAfterRegisterSucceeds ==
    [][(page = "register" /\ pushed' # pushed) =>
          \E k \in DOMAIN calls :
              /\ Settles(k)
              /\ calls[k].action = register.id
              /\ calls'[k].status = "ok"]_vars

\* C20: no failure is retried automatically.  A request is issued only by
\* the start of an invocation or by an invocation going on to its next,
\* different operation after an answer without failure; an invocation that
\* ends in a failure issues nothing, so the failed operation is requested
\* again only by a new invocation.
C20_NoAutomaticRetry ==
    [][/\ Len(net') \in {Len(net), Len(net) + 1}
       /\ Len(net') = Len(net) + 1 =>
            LET q == net'[Len(net')] IN
            \/ /\ Starts
               /\ q.call = Len(calls')
               /\ q.op = Row(Started.action).op
            \/ /\ ~Starts
               /\ calls[q.call].status = "flight"
               /\ ~Fails(Row(calls[q.call].stage),
                         [kind |-> net'[calls[q.call].req].result])
               /\ calls'[q.call].stage = Row(calls[q.call].stage).then
               /\ q.op # net[calls[q.call].req].op
       /\ \A k \in DOMAIN calls :
            (Settles(k) /\ calls'[k].status = "failed") => Len(net') = Len(net)
       /\ \A k \in DOMAIN calls :
            (calls[k].status = "flight"
                /\ Fails(Row(calls[k].stage), [kind |-> net'[calls[k].req].result]))
            => Settles(k)]_vars

\* a sendResetOTP that failed, and the caller's second invocation of it: two
\* requests of the operation, one per invocation
C20_Witness ==
    /\ Len(calls) = 2 /\ Len(net) = 2
    /\ calls[1].action = sendResetOTP.id /\ calls[1].status = "failed"
    /\ calls[2].action = sendResetOTP.id /\ calls[2].status = "flight"
    /\ calls[2].overlapped = FALSE
    /\ net[1].call = 1 /\ net[1].result \in Failed
    /\ net[2].call = 2 /\ net[2].result = "pending"

----------------------------------------------------------------------------
(* Server-side guards (lib/auth-guards.ts).  A guard runs inside one server  *)
(* request; every getSession() it awaits reads the session the database      *)
(* holds at that moment for the request's cookies.  Between two awaits the   *)
(* clock may advance and an administrator may ban or unban the user, change  *)
(* the role, or the session may end.  getSession is taken to resolve.        *)

\* the clock runs from 0 up to this time
MaxTime == 3

\* Role (db/schema/enums/role.ts); user.role may also be unset
Roles == {"user", "admin", "member", "owner"}
UserRoles == {"user", "admin", "owner", NULL}

\* the roles arrays passed to hasAnyRole and requireAnyRole
RoleLists == { <<>>, <<"admin">>, <<"admin", "owner">> }

\* the ban fields of a user: not banned, banned for good, banned until time
\* 2 with a reason, banned until time 1 without a reason
Bans ==
    { [banned |-> FALSE, banExpires |-> NoExpiry, banReason |-> ""],
      [banned |-> TRUE, banExpires |-> NoExpiry, banReason |-> ""],
      [banned |-> TRUE, banExpires |-> 2, banReason |-> "spam"],
      [banned |-> TRUE, banExpires |-> 1, banReason |-> ""] }

\* what getSession can resolve to
Sessions ==
    { NoSession } \cup
    { [user |-> TRUE, role |-> r, banned |-> b.banned,
       banExpires |-> b.banExpires, banReason |-> b.banReason] :
         r \in UserRoles, b \in Bans }

\* roles.includes(x)
includes(roles, x) == \E i \in DOMAIN roles : roles[i] = x

\* what a guard call ends with: a returned session, a returned boolean, or a
\* thrown Error whose message is kept as its parts
ReturnSession(s) == [kind |-> "return", session |-> s, value |-> "session", error |-> <<>>]
ReturnBool(b) ==
    [kind |-> "return", session |-> NoSession,
     value |-> IF b THEN TRUE3 ELSE FALSE3, error |-> <<>>]
Throw(parts) == [kind |-> "throw", session |-> NoSession, value |-> NULL, error |-> parts]

Unauthorized == <<"Unauthorized", "Authentication required">>
ForbiddenRole(role) == <<"Forbidden", role, "role required">>
ForbiddenRoles(roles) == <<"Forbidden", "One of">> \o roles \o <<"roles required">>
AccountBanned(reason) ==
    <<"Account banned", IF reason = "" THEN "No reason provided" ELSE reason>>

\* isAuthenticated after its await: !!session?.user
isAuthenticated(s) == ReturnBool(s.user)

\* requireAuth after its await
requireAuth(s) ==
    IF ~s.user THEN Throw(Unauthorized) ELSE ReturnSession(s)

\* hasRole after its await
hasRole(s, role) ==
    IF ~s.user THEN ReturnBool(FALSE) ELSE ReturnBool(s.role = role)

\* hasAnyRole after its await
hasAnyRole(s, roles) ==
    IF ~s.user THEN ReturnBool(FALSE) ELSE ReturnBool(includes(roles, s.role))

\* requireRole reading the session without requireAuth's check
requireRole_skipsAuth(s, role) ==
    IF s.role # role THEN Throw(ForbiddenRole(role)) ELSE ReturnSession(s)

\* requireRole after requireAuth's await: an exception of requireAuth
\* propagates
requireRole(s, role) ==
    IF requireAuth(s).kind = "throw" THEN requireAuth(s)
    ELSE IF s.role # role THEN Throw(ForbiddenRole(role))
    ELSE ReturnSession(s)

\* requireAnyRole after requireAuth's await
requireAnyRole(s, roles) ==
    IF requireAuth(s).kind = "throw" THEN requireAuth(s)
    ELSE IF ~includes(roles, s.role) THEN Throw(ForbiddenRoles(roles))
    ELSE ReturnSession(s)

\* isBanned with now <= banExpiry
isBanned_inclusive(s, now) ==
    IF ~s.user THEN ReturnBool(FALSE)
    ELSE IF s.banned
    THEN IF s.banExpires = NoExpiry THEN ReturnBool(TRUE)
         ELSE ReturnBool(now <= s.banExpires)
    ELSE ReturnBool(FALSE)

\* isBanned after its await, now being what new Date() reads
isBanned(s, now) ==
    IF ~s.user THEN ReturnBool(FALSE)
    ELSE IF s.banned
    THEN IF s.banExpires = NoExpiry THEN ReturnBool(TRUE)
         ELSE ReturnBool(now < s.banExpires)
    ELSE ReturnBool(FALSE)

\* requireNotBanned after isBanned resolved to banned: session is the one
\* requireAuth returned
requireNotBanned(session, banned) ==
    IF banned.value = TRUE3 THEN Throw(AccountBanned(session.banReason))
    ELSE ReturnSession(session)

\* the exported functions that take no argument, a role, a roles array
PlainGuards ==
    {"getSession", "isAuthenticated", "requireAuth", "isAdmin", "isOwner",
     "requireAdmin", "requireOwner", "isBanned", "requireNotBanned"}
RoleGuards == {"hasRole", "requireRole"}
RolesGuards == {"hasAnyRole", "requireAnyRole"}

\* the result of guard call g whose only getSession() resolved to s at time now
guardResult(g, s, now) ==
    CASE g.fn = "getSession" -> ReturnSession(s)
      [] g.fn = "isAuthenticated" -> isAuthenticated(s)
      [] g.fn = "requireAuth" -> requireAuth(s)
      [] g.fn = "hasRole" -> hasRole(s, g.role)
      [] g.fn = "hasAnyRole" -> hasAnyRole(s, g.roles)
      [] g.fn = "requireRole" -> requireRole(s, g.role)
      [] g.fn = "requireAnyRole" -> requireAnyRole(s, g.roles)
      [] g.fn = "isAdmin" -> hasRole(s, "admin")
      [] g.fn = "isOwner" -> hasRole(s, "owner")
      [] g.fn = "requireAdmin" -> requireRole(s, "admin")
      [] g.fn = "requireOwner" -> requireRole(s, "owner")
      [] OTHER -> isBanned(s, now)

InitGuards ==
    /\ page = "none"
    /\ emailParam = <<>>
    /\ step = "none"
    /\ email = <<>>
    /\ otpValue = <<>>
    /\ formData = NoArg
    /\ fieldErrors = [email |-> "", password |-> ""]
    /\ hook = <<>>
    /\ pending = <<>>
    /\ requests = <<>>
    /\ pushed = <<>>
    /\ visited = <<>>
    /\ cells = <<>>
    /\ calls = <<>>
    /\ net = <<>>
    /\ effects = <<>>
    /\ database \in Sessions
    /\ clock = 0
    /\ guard = NoGuard

clientVars == <<flowVars, cells, calls, net, effects>>

\* a server component or action calls a guard; the call runs to its first
\* await of getSession()
GuardCall ==
    /\ guard.pc = "done"
    /\ \E fn \in PlainGuards \cup RoleGuards \cup RolesGuards :
       \E role \in (IF fn \in RoleGuards THEN Roles ELSE {""}) :
       \E roles \in (IF fn \in RolesGuards THEN RoleLists ELSE {<<>>}) :
          guard' = [NoGuard EXCEPT !.fn = fn, !.role = role, !.roles = roles,
                                   !.pc = "getSession",
                                   !.result.kind = "pending"]
    /\ UNCHANGED <<database, clock, clientVars>>

\* the first getSession() resolves and the guard runs on: to its end, or, in
\* requireNotBanned with a user, to the getSession() inside isBanned()
GuardSession ==
    /\ guard.pc = "getSession"
    /\ guard' =
         IF guard.fn = "requireNotBanned"
         THEN IF requireAuth(database).kind = "throw"
              THEN [guard EXCEPT !.pc = "done", !.session = database,
                                 !.result = requireAuth(database)]
              ELSE [guard EXCEPT !.pc = "isBanned.getSession", !.session = database]
         ELSE [guard EXCEPT !.pc = "done", !.session = database, !.now = clock,
                            !.result = guardResult(guard, database, clock)]
    /\ UNCHANGED <<database, clock, clientVars>>

\* the getSession() inside isBanned() resolves: isBanned returns and
\* requireNotBanned throws or returns the session requireAuth gave it
GuardBanCheck ==
    /\ guard.pc = "isBanned.getSession"
    /\ guard' = [guard EXCEPT !.pc = "done", !.checked = database, !.now = clock,
                   !.result = requireNotBanned(guard.session, isBanned(database, clock))]
    /\ UNCHANGED <<database, clock, clientVars>>

\* the session the database holds changes: sign-in, sign-out, expiry, a ban,
\* an unban, a role change
SessionChange ==
    /\ \E s \in Sessions : s # database /\ database' = s
    /\ UNCHANGED <<clock, guard, clientVars>>

\* time passes
Tick ==
    /\ clock < MaxTime
    /\ clock' = clock + 1
    /\ UNCHANGED <<database, guard, clientVars>>

NextGuards == GuardCall \/ GuardSession \/ GuardBanCheck \/ SessionChange \/ Tick

SpecGuards == InitGuards /\ [][NextGuards]_vars

----------------------------------------------------------------------------
(* C21..C29 *)

\* the actions that check a code without consuming it
Checks == { checkOTP.id, checkResetOTP.id }

\* the validity cell a check reports into
ValidityFlag(id) == IF id = checkOTP.id THEN "isValid" ELSE "isOTPValid"

\* when a check settles it returns true exactly when the backend reported no
\* error, false after an error or an exception, and the validity cell then
\* equals the returned value
CheckReturnsAndStores ==
    \A k \in DOMAIN calls :
        (Settles(k) /\ calls[k].action \in Checks) =>
            /\ calls'[k].returned =
                  (IF net'[calls[k].req].result = "ok" THEN TRUE3 ELSE FALSE3)
            /\ cells'[Row(calls[k].action).hook][ValidityFlag(calls[k].action)]
                  = calls'[k].returned

\* the validity cell is null while a check is in flight
NullWhileChecking ==
    \A k \in DOMAIN calls :
        (calls[k].status = "flight" /\ calls[k].action \in Checks) =>
            cells[Row(calls[k].action).hook][ValidityFlag(calls[k].action)] = NULL

\* C21: checkOTP and checkResetOTP return true exactly when the backend check
\* reports no error and false on a backend error or a thrown exception; after
\* the call settles the validity flag (isValid / isOTPValid) equals the
\* returned value, and the flag is null while the check is in flight.
\* When two checks of one instance overlap, the first to settle stores its
\* result while the second is still in flight.
C21_CheckResult == [][CheckReturnsAndStores]_vars /\ []NullWhileChecking

\* guard call fn has ended
Ended(fn) == guard.fn = fn /\ guard.pc = "done"

\* the guard call threw an Error whose message starts with prefix
Threw(prefix) == guard.result.kind = "throw" /\ guard.result.error[1] = prefix

\* the guard call returned the session it fetched
ReturnedItsSession ==
    /\ guard.result.kind = "return"
    /\ guard.result.value = "session"
    /\ guard.result.session = guard.session

\* C22: the server-side guards return a session only when their condition
\* holds and otherwise throw: requireAuth throws an Unauthorized error when
\* the session has no user; requireRole(role) and requireAnyRole(roles) throw
\* Unauthorized when there is no user and Forbidden when the user's role is
\* not role / not in roles; hasRole and hasAnyRole return false, never throw,
\* when there is no user.
C22_GuardsReturnOrThrow ==
    LET s == guard.session IN
    /\ Ended("requireAuth") =>
          IF s.user THEN ReturnedItsSession ELSE Threw("Unauthorized")
    /\ Ended("requireRole") =>
          IF ~s.user THEN Threw("Unauthorized")
          ELSE IF s.role # guard.role THEN Threw("Forbidden")
          ELSE ReturnedItsSession
    /\ Ended("requireAnyRole") =>
          IF ~s.user THEN Threw("Unauthorized")
          ELSE IF s.role \notin { guard.roles[i] : i \in DOMAIN guard.roles }
          THEN Threw("Forbidden")
          ELSE ReturnedItsSession
    /\ (Ended("hasRole") \/ Ended("hasAnyRole")) =>
          (~s.user => guard.result.kind = "return" /\ guard.result.value = FALSE3)

\* requireAnyRole(["admin", "owner"]) was called for a signed-in user whose
\* role is "user" and threw Forbidden
C22_Witness ==
    /\ Ended("requireAnyRole")
    /\ guard.roles = <<"admin", "owner">>
    /\ guard.session.user
    /\ guard.session.role = "user"
    /\ Threw("Forbidden")

\* C23: isBanned returns true exactly when the session has a user whose
\* banned flag is set and either no ban expiry is set or the current time is
\* strictly before the ban expiry; it returns false when there is no user,
\* when the user is not banned, and when the current time is at or after the
\* ban expiry.
C23_BannedUntilExpiry ==
    Ended("isBanned") =>
        LET s == guard.session IN
        /\ guard.result.kind = "return"
        /\ guard.result.value \in {TRUE3, FALSE3}
        /\ guard.result.value = TRUE3 <=>
              /\ s.user
              /\ s.banned
              /\ s.banExpires = NoExpiry \/ guard.now < s.banExpires
        /\ (~s.user \/ ~s.banned \/ (s.banExpires # NoExpiry /\ guard.now >= s.banExpires))
              => guard.result.value = FALSE3

\* isBanned was called at time 2 for a user banned until time 2 and returned
\* false
C23_Witness ==
    /\ Ended("isBanned")
    /\ guard.session.user
    /\ guard.session.banned
    /\ guard.session.banExpires = 2
    /\ guard.now = 2
    /\ guard.result.value = FALSE3

\* C24: in every hook, a loading flag is true whenever at least one
\* invocation of an action reporting into that flag is still in flight,
\* including when several invocations of the hook's actions overlap and one
\* of them settles before the others.  The finally block of the invocation
\* that settles first sets the flag to false while the others are in flight.
C24_LoadingWhileAnyInFlight ==
    \A h \in DOMAIN cells : \A f \in Flags(h) :
        (\E k \in DOMAIN calls : Holds(k, f)) => cells[h][f] = TRUE

\* the success cell and the error cell that go together in hook h; useTwoFactor
\* has one pair for verify and one for disable
SuccessPairs(h) ==
    IF h = "useTwoFactor"
    THEN { [success |-> "verifySuccess", error |-> "verifyError"],
           [success |-> "disableSuccess", error |-> "disableError"] }
    ELSE IF "success" \in DOMAIN HookInit(h)
    THEN { [success |-> "success", error |-> "error"] }
    ELSE {}

\* no invocation of the run was started while another was in flight
NoOverlap == \A k \in DOMAIN calls : ~calls[k].overlapped

\* C25: in every hook with a success flag (useLogin, useRegister,
\* useForgotPassword, useOTPVerification, useTwoFactor verify/disable),
\* whenever no invocation is in flight the success flag and the error message
\* are mutually exclusive: success = true and error non-null never hold
\* together, after any sequence of non-overlapping calls of the hook's
\* actions.  useRegister.sendVerificationOTP, checkOTP and checkResetOTP do
\* not reset success at their start: when one of them fails after an earlier
\* action succeeded, success stays true beside the error.
C25_SuccessExcludesError ==
    (NoOverlap /\ \A k \in DOMAIN calls : calls[k].status # "flight") =>
        \A h \in DOMAIN cells : \A p \in SuccessPairs(h) :
            ~(cells[h][p.success] = TRUE /\ cells[h][p.error] # NULL)

\* C26: if the backend reset-password call succeeds, resetPassword settles
\* with success = true and error = null and the flow reaches the terminal
\* redirect, regardless of whether the subsequent revoke-other-sessions call
\* succeeds, returns an error or throws.  When revokeOtherSessions throws,
\* the catch block sets the error, success stays false and no redirect is
\* made, although the password has been changed.
C26_ResetSucceedsWhateverRevokeDoes ==
    [][ ( /\ pending["reset"].op = "revokeOtherSessions"
          /\ requests[pending["reset"].req - 1].op = RESET_PASSWORD
          /\ requests[pending["reset"].req - 1].result = "ok"
          /\ pending'["reset"] = NoCall )
        => /\ hook'["reset"].success
           /\ hook'["reset"].error = NULL
           /\ ~hook'["reset"].isLoading
           /\ pushed' = Append(pushed, "/login?reset=success") ]_vars

\* C27: the password-reset flow step only moves forward: the only step
\* changes are request to verify and verify to reset, no action moves the
\* step back to an earlier one, and once the step is reset it never changes
\* again for the lifetime of the mounted page.
C27_StepOnlyMovesForward ==
    [][ /\ step' # step =>
              \/ step = "request" /\ step' = "verify"
              \/ step = "verify" /\ step' = "reset"
        /\ step = "reset" => step' = "reset" ]_vars

\* the page was opened without an email, has gone through request and verify
\* to reset, and a reset-password call has failed there: the step is still
\* reset
C27_Witness ==
    /\ page = "forgot-password"
    /\ visited = <<"request", "verify", "reset">>
    /\ step = "reset"
    /\ \E k \in 1..Len(requests) :
          requests[k].op = RESET_PASSWORD /\ requests[k].result \in {"error", "throw"}

\* isBanned's rule applied to session s at time t
BannedAt(s, t) ==
    s.user /\ s.banned /\ (s.banExpires = NoExpiry \/ t < s.banExpires)

\* C28: requireNotBanned returns a session only if the user of that returned
\* session is not banned (by isBanned's rule applied to that same session),
\* and throws the ban error only if that user is banned, even when the
\* session changes between the guard's two separate session fetches (one for
\* the authentication check, one inside the ban check).  The guard returns
\* the session of its first fetch and decides on the session of its second:
\* a user banned in the first and not in the second is returned with
\* banned set, a user banned only in the second gets the ban error built
\* from the first session's banReason.
C28_BanDecidedOnReturnedSession ==
    Ended("requireNotBanned") =>
        /\ guard.result.kind = "return" => ~BannedAt(guard.result.session, guard.now)
        /\ Threw("Account banned") => BannedAt(guard.session, guard.now)

----------------------------------------------------------------------------
(* useSession with its revocations: the mount load and then calls of         *)
(* revokeSession and revokeOtherSessions, which may overlap                  *)

\* the two revocations
Revocations == { revokeSession.id, revokeOtherSessions.id }

\* the revoking flag of a revocation
RevokingFlag(id) ==
    IF id = revokeSession.id THEN "isRevokingSession" ELSE "isRevokingOtherSessions"

InitSession == InitHooks /\ "useSession" \in DOMAIN cells

\* the caller invokes a revocation: at most MaxCalls of them after the load
Revoke ==
    /\ Mounted
    /\ Len(calls) <= MaxCalls
    /\ \E id \in Revocations : invoke(id, NoArg, NoOptions)
    /\ UNCHANGED <<flowVars, guardVars>>

NextSession == Mount \/ Revoke \/ Settle

SpecSession == InitSession /\ [][NextSession]_vars

\* invocation k is a revocation awaiting the answer to its revoke request
AwaitsRevoke(k) ==
    /\ calls[k].action \in Revocations
    /\ calls[k].status = "flight"
    /\ calls[k].stage = calls[k].action

\* in this step a revocation issues its session refresh
IssuesRefresh(k) ==
    /\ calls[k].action \in Revocations
    /\ Len(net') = Len(net) + 1
    /\ net'[Len(net')].call = k
    /\ net'[Len(net')].op = "getSession"

\* the refresh is issued only in the step in which the revoke call succeeds
RefreshOnlyAfterRevokeSucceeds ==
    \A k \in DOMAIN calls :
        IssuesRefresh(k) => AwaitsRevoke(k) /\ net'[calls[k].req].result = "ok"

\* a failed revoke issues nothing, stores its message in revokeError and
\* leaves session and error as they were
FailedRevokeLeavesSession ==
    \A k \in DOMAIN calls :
        (AwaitsRevoke(k) /\ net'[calls[k].req].result \in {"error", "throw"}) =>
            /\ Len(net') = Len(net)
            /\ calls'[k].status = "failed"
            /\ calls'[k].message # NULL
            /\ cells'["useSession"].revokeError = calls'[k].message
            /\ cells'["useSession"].session = cells["useSession"].session
            /\ cells'["useSession"].error = cells["useSession"].error

\* the revoking flag is true while the revocation is in flight, its refresh
\* included
RevokingUntilRefreshSettles ==
    \A k \in DOMAIN calls :
        (calls[k].action \in Revocations /\ calls[k].status = "flight") =>
            cells["useSession"][RevokingFlag(calls[k].action)] = TRUE

\* C29: in useSession, revokeSession and revokeOtherSessions issue the
\* session refresh only after the revoke call has succeeded; when the revoke
\* fails (backend error or exception) no refresh is issued, revokeError holds
\* the failure message, and the session data and session error are left
\* unchanged; the revoking flag stays true until the refresh triggered by a
\* successful revoke has settled.
C29_RevokeThenRefresh ==
    /\ [][RefreshOnlyAfterRevokeSucceeds /\ FailedRevokeLeavesSession]_vars
    /\ []RevokingUntilRefreshSettles

====
